---- MODULE Spec2Model ----
(***************************************************************************)
(* Versioned-component dispatch and migration core of gochoreo             *)
(* (package pkg/version): Version / VersionRange, Detector, Manager,       *)
(* Migrator.  Strings whose characters the code inspects (version          *)
(* strings, header values) are sequences of one-character strings; names   *)
(* that the code only compares (component names, field names) are strings. *)
(***************************************************************************)
EXTENDS Integers, Sequences, FiniteSets, TLC

\* ------------------------------------------------------------------------
\* Bounds of the model
\* ------------------------------------------------------------------------
NumThreads == 2
MaxCalls == 3
MaxSeqCalls == 3
MaxAdds == 1
MaxHops == 2
MaxRecords == 4

\* ------------------------------------------------------------------------
\* State
\* ------------------------------------------------------------------------
VARIABLES
    components,      \* Manager.components: name -> component
    componentMeta,   \* Manager.componentMeta: name -> meta record
    constraints,     \* Manager.constraints: name -> list of constraints
    mu,              \* Manager.mu: the thread holding the write lock, or NoThread
    pc,              \* per thread: where it is inside a Manager call
    frame,           \* per thread: arguments and locals of the call in progress
    ret,             \* the last completed call: its thread, arguments and results
    calls,           \* Manager calls that may still be started
    hist             \* per name: completed Register calls and their outcomes

VARIABLES
    migrations,      \* Migrator.migrations: key string -> migration
    added,           \* the migrations handed to AddMigration, by (from, to)
    migrated,        \* the last completed Migrator call and what it returned
    adding,          \* the AddMigration call that is under way, if any
    adds             \* AddMigration calls that may still be made

VARIABLES
    detector,        \* the Detector's configuration
    detection        \* the last request handed to the Detector and its result

VARIABLES
    metricsCollector, \* Manager.metricsCollector is set (not nil)
    metrics,         \* DefaultMetricsCollector.metrics: component -> ComponentMetrics
    heap,            \* the Go maps the ComponentMetrics structs point to, by address
    cmu,             \* DefaultMetricsCollector.mu: the thread holding it, or NoThread
    clock,           \* time.Now(), in ticks
    snapshot,        \* the last value a collector read handed out, and its caller's copy
    recorded         \* RecordRequest and RecordError calls completed since the last Reset

VARIABLES
    evaluated        \* the versions a function of version.go was applied to, and its results

mgrVars == <<components, componentMeta, constraints, mu, pc, frame, ret, calls, hist>>

migVars == <<migrations, added, migrated, adds, adding>>

detVars == <<detector, detection>>

colVars == <<metricsCollector, metrics, heap, cmu, clock, snapshot, recorded>>

verVars == <<evaluated>>

vars == <<mgrVars, migVars, detVars, colVars, verVars>>

\* ------------------------------------------------------------------------
\* Go strings and strconv
\* ------------------------------------------------------------------------
Digits == <<"0", "1", "2", "3", "4", "5", "6", "7", "8", "9">>

UpperChars == <<"A", "C", "E", "L", "N", "R", "S", "T", "U">>

LowerChars == <<"a", "c", "e", "l", "n", "r", "s", "t", "u">>

IsDigit(c) == \E i \in 1..10 : Digits[i] = c

DigitVal(c) == (CHOOSE i \in 1..10 : Digits[i] = c) - 1

\* strings.ToLower, on the letters of the model's alphabet
LowerChar(c) ==
    IF \E i \in 1..Len(UpperChars) : UpperChars[i] = c
    THEN LowerChars[CHOOSE i \in 1..Len(UpperChars) : UpperChars[i] = c]
    ELSE c

ToLower(s) == [i \in 1..Len(s) |-> LowerChar(s[i])]

\* value of a run of decimal digits
RECURSIVE DigitsValue(_)
DigitsValue(s) ==
    IF s = <<>> THEN 0
    ELSE 10 * DigitsValue(SubSeq(s, 1, Len(s) - 1)) + DigitVal(s[Len(s)])

\* strconv.Atoi: optional sign, then one or more decimal digits
Atoi(s) ==
    LET body == IF s # <<>> /\ s[1] \in {"+", "-"} THEN Tail(s) ELSE s
        neg == s # <<>> /\ s[1] = "-"
    IN IF body = <<>> \/ \E i \in 1..Len(body) : ~IsDigit(body[i])
       THEN [ok |-> FALSE, val |-> 0]
       ELSE [ok |-> TRUE,
             val |-> IF neg THEN 0 - DigitsValue(body) ELSE DigitsValue(body)]

\* fmt's %d of a non-negative int
RECURSIVE Itoa(_)
Itoa(n) ==
    IF n < 10 THEN <<Digits[n + 1]>>
    ELSE Itoa(n \div 10) \o <<Digits[(n % 10) + 1]>>

HasPrefix(s, p) == Len(s) >= Len(p) /\ SubSeq(s, 1, Len(p)) = p

TrimPrefix(s, p) == IF HasPrefix(s, p) THEN SubSeq(s, Len(p) + 1, Len(s)) ELSE s

\* strings.Index: first position of sep in s, 0 when absent
Index(s, sep) ==
    LET hits == {i \in 1..(Len(s) - Len(sep) + 1) : SubSeq(s, i, i + Len(sep) - 1) = sep}
    IN IF hits = {} THEN 0 ELSE CHOOSE i \in hits : \A j \in hits : i <= j

StringsContains(s, sep) == Index(s, sep) # 0

\* strings.Split with a non-empty separator
RECURSIVE Split(_, _)
Split(s, sep) ==
    LET i == Index(s, sep)
    IN IF i = 0 THEN <<s>>
       ELSE <<SubSeq(s, 1, i - 1)>> \o Split(SubSeq(s, i + Len(sep), Len(s)), sep)

\* strings.SplitN(s, sep, 2)
SplitN2(s, sep) ==
    LET i == Index(s, sep)
    IN IF i = 0 THEN <<s>>
       ELSE <<SubSeq(s, 1, i - 1), SubSeq(s, i + Len(sep), Len(s))>>

\* ------------------------------------------------------------------------
\* Version
\* ------------------------------------------------------------------------
ZeroVersion == [Version |-> <<>>, Major |-> 0, Minor |-> 0, Patch |-> 0, Label |-> <<>>]

\* a Go string from its characters
RECURSIVE Str(_)
Str(chars) == IF chars = <<>> THEN "" ELSE Head(chars) \o Str(Tail(chars))

String(v) ==
    IF v.Version # <<>> THEN v.Version
    ELSE LET base == <<"v">> \o Itoa(v.Major) \o <<".">> \o Itoa(v.Minor)
                        \o <<".">> \o Itoa(v.Patch)
         IN IF v.Label # <<>> THEN base \o <<"-">> \o v.Label ELSE base

IsZero(v) == v.Version = <<>> /\ v.Major = 0 /\ v.Minor = 0 /\ v.Patch = 0

\* a comparison that stops at the minor number
CompareMajorMinor(v, other) ==
    IF v.Major # other.Major THEN (IF v.Major < other.Major THEN -1 ELSE 1)
    ELSE IF v.Minor # other.Minor THEN (IF v.Minor < other.Minor THEN -1 ELSE 1)
    ELSE 0

Compare(v, other) ==
    IF v.Major # other.Major THEN (IF v.Major < other.Major THEN -1 ELSE 1)
    ELSE IF v.Minor # other.Minor THEN (IF v.Minor < other.Minor THEN -1 ELSE 1)
    ELSE IF v.Patch # other.Patch THEN (IF v.Patch < other.Patch THEN -1 ELSE 1)
    ELSE 0

NewVersion(major, minor, patch) ==
    [Version |-> <<"v">> \o Itoa(major) \o <<".">> \o Itoa(minor) \o <<".">> \o Itoa(patch),
     Major |-> major, Minor |-> minor, Patch |-> patch, Label |-> <<>>]

NewVersionWithLabel(major, minor, patch, label) ==
    LET base == <<"v">> \o Itoa(major) \o <<".">> \o Itoa(minor) \o <<".">> \o Itoa(patch)
    IN [Version |-> IF label # <<>> THEN base \o <<"-">> \o label ELSE base,
        Major |-> major, Minor |-> minor, Patch |-> patch, Label |-> label]

DefaultVersion == [Version |-> <<"v", "1", ".", "0", ".", "0">>,
                   Major |-> 1, Minor |-> 0, Patch |-> 0, Label |-> <<>>]

ParseVersion(version) ==
    IF version = <<>> THEN ZeroVersion
    ELSE IF ToLower(version) \in {<<"l", "a", "t", "e", "s", "t">>,
                                  <<"c", "u", "r", "r", "e", "n", "t">>}
    THEN [ZeroVersion EXCEPT !.Version = version]
    ELSE
      LET trimmed == TrimPrefix(version, <<"v">>)
          hasLabel == StringsContains(trimmed, <<"-">>)
          cut == SplitN2(trimmed, <<"-">>)
          cleanVersion == IF hasLabel THEN cut[1] ELSE trimmed
          label == IF hasLabel THEN cut[2] ELSE <<>>
          parts == Split(cleanVersion, <<".">>)
          major == Atoi(parts[1])
          minor == IF Len(parts) > 1 THEN Atoi(parts[2]) ELSE [ok |-> TRUE, val |-> 0]
          patch == IF Len(parts) > 2 THEN Atoi(parts[3]) ELSE [ok |-> TRUE, val |-> 0]
      IN IF ~major.ok THEN [ZeroVersion EXCEPT !.Version = version]
         ELSE [Version |-> version,
               Major |-> major.val,
               Minor |-> IF minor.ok THEN minor.val ELSE 0,
               Patch |-> IF patch.ok THEN patch.val ELSE 0,
               Label |-> label]

\* ------------------------------------------------------------------------
\* VersionRange
\* ------------------------------------------------------------------------
NewVersionRange(min, max) == [Min |-> min, Max |-> max, Exact |-> <<>>]

NewExactVersions(versions) == [Min |-> ZeroVersion, Max |-> ZeroVersion, Exact |-> versions]

Contains(vr, version) ==
    IF Len(vr.Exact) > 0
    THEN \E i \in 1..Len(vr.Exact) :
            /\ vr.Exact[i].Major = version.Major
            /\ vr.Exact[i].Minor = version.Minor
            /\ vr.Exact[i].Patch = version.Patch
    ELSE IF ~IsZero(vr.Min) /\ Compare(version, vr.Min) < 0 THEN FALSE
    ELSE IF ~IsZero(vr.Max) /\ Compare(version, vr.Max) > 0 THEN FALSE
    ELSE TRUE

\* ------------------------------------------------------------------------
\* Errors (errors.go)
\* ------------------------------------------------------------------------
NilError == [type |-> "nil"]

\* fmt.Errorf: an untyped error carrying its format and arguments
Errorf(format, arg) == [type |-> "errorString", format |-> format, arg |-> arg]

NewVersionError(component, requested, supported, message) ==
    [type |-> "VersionError", Component |-> component, RequestedVersion |-> requested,
     SupportedVersions |-> supported, Message |-> message,
     Code |-> "VERSION_NOT_SUPPORTED"]

NewComponentNotFoundError(component, message) ==
    [type |-> "ComponentNotFoundError", Component |-> component, Message |-> message]

NewMigrationError(component, from, to, message, cause) ==
    [type |-> "MigrationError", Component |-> component, FromVersion |-> from,
     ToVersion |-> to, Message |-> message, Cause |-> cause]

GetVersionErrorCode(err) ==
    CASE err.type = "VersionError" -> err.Code
      [] err.type = "ComponentNotFoundError" -> "COMPONENT_NOT_FOUND"
      [] err.type = "MigrationError" -> "MIGRATION_ERROR"
      [] err.type = "CompatibilityError" -> "COMPATIBILITY_ERROR"
      [] err.type = "DeprecationError" -> "DEPRECATED_VERSION"
      [] err.type = "ConfigurationError" -> "CONFIGURATION_ERROR"
      [] err.type = "ValidationError" -> "VALIDATION_ERROR"
      [] OTHER -> "UNKNOWN_ERROR"

\* ------------------------------------------------------------------------
\* Components handed to the Manager (the example services)
\* ------------------------------------------------------------------------
NilComponent == [id |-> "nil"]

ExampleUserService ==
    [id |-> "userService", name |-> "users", type |-> "service",
     supportedVersions |-> <<NewVersion(1, 0, 0), NewVersion(2, 0, 0)>>]

ExampleUserServiceB ==
    [id |-> "userServiceB", name |-> "users", type |-> "service",
     supportedVersions |-> <<NewVersion(1, 0, 0), NewVersion(1, 1, 0), NewVersion(2, 0, 0)>>]

ExampleProductService ==
    [id |-> "productService", name |-> "products", type |-> "service",
     supportedVersions |-> <<NewVersion(1, 0, 0), NewVersion(1, 1, 0)>>]

UnnamedService ==
    [id |-> "unnamed", name |-> "", type |-> "service",
     supportedVersions |-> <<NewVersion(1, 0, 0)>>]

SupportedVersions(c) == c.supportedVersions

GetDefaultVersion(c) == c.supportedVersions[1]

IsVersionSupported(c, v) ==
    \E i \in 1..Len(c.supportedVersions) : Compare(c.supportedVersions[i], v) = 0

\* ------------------------------------------------------------------------
\* Go maps
\* ------------------------------------------------------------------------
EmptyMap == [k \in {} |-> 0]

Put(m, k, v) == [x \in (DOMAIN m) \cup {k} |-> IF x = k THEN v ELSE m[x]]

Delete(m, k) == [x \in (DOMAIN m) \ {k} |-> m[x]]

\* ------------------------------------------------------------------------
\* Manager (manager.go)
\* ------------------------------------------------------------------------
Threads == 1..NumThreads

NoThread == 0

Names == {"users", "products"}

NoFrame == [op |-> "none"]

NoRet == [thread |-> NoThread, call |-> [op |-> "none"]]

NoHist == [done |-> 0, ok |-> 0, conflict |-> 0, unreg |-> 0]

\* a lock that never makes a caller wait
LockNeverWaits == TRUE

\* sync.RWMutex: Lock and RLock return only while no writer holds the lock
\* (read sections are single steps of this model, so no reader is ever inside one
\* at a step boundary)
LockFree == mu = NoThread

\* a Get that keeps its read lock until its caller is done with the component
HeldThroughProcessing == {"GetCheck", "ProcessVersioned"}

\* the positions at which a thread holds the read lock: inside the Type() that
\* ListByType calls on a component (lines 187-193); Get unlocks inside its
\* lookup step (line 138), and List and CheckCompatibility take and release the
\* lock within their one step
ReadSections == {"Type"}

\* Lock returns only while no writer and no reader holds the lock
WriteLockFree == LockFree /\ \A u \in DOMAIN pc : pc[u] \notin ReadSections

NewManager(T, budget) ==
    /\ components = EmptyMap
    /\ componentMeta = EmptyMap
    /\ constraints = EmptyMap
    /\ mu = NoThread
    /\ pc = [t \in T |-> "idle"]
    /\ frame = [t \in T |-> NoFrame]
    /\ ret = NoRet
    /\ calls = budget
    /\ hist = [n \in Names |-> NoHist]

\* the meta record Register synthesizes (timestamps left out; the example
\* services are not DeprecatableComponents, so DeprecatedVersions stays nil)
\* a meta entry that does not take the component's type
NewMetaUntyped(component) ==
    [Name |-> component.name,
     Type |-> "",
     SupportedVersions |-> SupportedVersions(component),
     DefaultVersion |-> GetDefaultVersion(component),
     DeprecatedVersions |-> <<>>,
     Constraints |-> <<>>]

NewMeta(component) ==
    [Name |-> component.name,
     Type |-> component.type,
     SupportedVersions |-> SupportedVersions(component),
     DefaultVersion |-> GetDefaultVersion(component),
     DeprecatedVersions |-> <<>>,
     Constraints |-> <<>>]

\* a call returns: the thread is idle again and its result is recorded
Return(t, r) ==
    /\ pc' = [pc EXCEPT ![t] = "idle"]
    /\ frame' = [frame EXCEPT ![t] = NoFrame]
    /\ ret' = [thread |-> t, call |-> r]

\* the three maps of the Manager, as a call finds them
Stored ==
    [components |-> components, componentMeta |-> componentMeta,
     constraints |-> constraints]

RegisterRet(op, component, cs, err, before) ==
    [op |-> op, component |-> component, constraints |-> cs, err |-> err,
     before |-> before]

\* the outcome of a completed Register call on a named component
Record(name, err) ==
    hist' = [hist EXCEPT ![name] =
                [@ EXCEPT !.done = @ + 1,
                          !.ok = IF err = NilError THEN @ + 1 ELSE @,
                          !.conflict = IF err = Errorf("component with name '%s' already registered", name)
                                       THEN @ + 1 ELSE @]]

\* Register, lines 55-66: the nil and empty-name checks, then m.mu.Lock()
RegisterEnter(t, op, component, cs) ==
    /\ pc[t] = "idle"
    /\ calls > 0
    /\ calls' = calls - 1
    /\ IF component = NilComponent
       THEN /\ Return(t, RegisterRet(op, component, cs,
                                   Errorf("component cannot be nil", ""), Stored))
            /\ UNCHANGED <<mu, hist>>
       ELSE IF component.name = ""
       THEN /\ Return(t, RegisterRet(op, component, cs,
                                   Errorf("component name cannot be empty", ""), Stored))
            /\ UNCHANGED <<mu, hist>>
       ELSE /\ WriteLockFree
            /\ mu' = t
            /\ pc' = [pc EXCEPT ![t] = "RegisterCheck"]
            /\ frame' = [frame EXCEPT ![t] = [op |-> op, component |-> component,
                                              constraints |-> cs,
                                              before |-> Stored]]
            /\ UNCHANGED <<ret, hist>>
    /\ UNCHANGED <<components, componentMeta, constraints>>
    /\ UNCHANGED <<migVars, detVars, colVars, verVars>>

Register(t, component) == RegisterEnter(t, "Register", component, <<>>)

\* Register, lines 68-71: the name-conflict check
RegisterCheck(t) ==
    /\ pc[t] = "RegisterCheck"
    /\ LET name == frame[t].component.name
           err == Errorf("component with name '%s' already registered", name)
       IN IF name \in DOMAIN components
          THEN /\ mu' = NoThread
               /\ Return(t, RegisterRet(frame[t].op, frame[t].component,
                                         frame[t].constraints, err,
                                         frame[t].before))
               /\ Record(name, err)
          ELSE /\ pc' = [pc EXCEPT ![t] = "RegisterStore"]
               /\ UNCHANGED <<mu, frame, ret, hist>>
    /\ UNCHANGED <<components, componentMeta, constraints, calls>>
    /\ UNCHANGED <<migVars, detVars, colVars, verVars>>

\* Register, lines 73-99: store the component and its meta, unlock, return nil;
\* RegisterWithConstraints goes on to its own critical section
RegisterStore(t) ==
    /\ pc[t] = "RegisterStore"
    /\ LET component == frame[t].component
           name == component.name
       IN /\ components' = Put(components, name, component)
          /\ componentMeta' = Put(componentMeta, name, NewMeta(component))
          /\ Record(name, NilError)
          /\ mu' = NoThread
          /\ IF frame[t].op = "RegisterWithConstraints"
             THEN /\ pc' = [pc EXCEPT ![t] = "RegisterWithConstraintsLock"]
                  /\ UNCHANGED <<frame, ret>>
             ELSE Return(t, RegisterRet(frame[t].op, component,
                                      frame[t].constraints, NilError,
                                      frame[t].before))
    /\ UNCHANGED <<constraints, calls>>
    /\ UNCHANGED <<migVars, detVars, colVars, verVars>>

\* RegisterWithConstraints, lines 103-106: the inner Register
RegisterWithConstraints(t, component, cs) ==
    RegisterEnter(t, "RegisterWithConstraints", component, cs)

\* a meta entry left without the constraints
AttachNothing(meta, cs) == meta

\* RegisterWithConstraints, line 113
AttachConstraints(meta, cs) == [meta EXCEPT !.Constraints = cs]

\* RegisterWithConstraints, lines 108-116: under the lock again, attach the
\* constraints; m.componentMeta[name] is nil when the name was unregistered in
\* between, and the assignment through it panics (after m.constraints was set)
RegisterWithConstraintsStore(t) ==
    /\ pc[t] = "RegisterWithConstraintsLock"
    /\ WriteLockFree
    /\ LET name == frame[t].component.name
           cs == frame[t].constraints
       IN /\ constraints' = Put(constraints, name, cs)
          /\ IF name \in DOMAIN componentMeta
             THEN /\ componentMeta' = [componentMeta EXCEPT
                                        ![name] = AttachConstraints(@, cs)]
                  /\ Return(t, RegisterRet(frame[t].op, frame[t].component, cs, NilError,
                                            frame[t].before))
             ELSE /\ pc' = [u \in DOMAIN pc |-> IF u = t THEN "panic" ELSE "crashed"]
                  /\ UNCHANGED <<componentMeta, frame, ret>>
    /\ UNCHANGED <<components, mu, calls, hist>>
    /\ UNCHANGED <<migVars, detVars, colVars, verVars>>

\* Unregister, lines 119-132
Unregister(t, name) ==
    /\ pc[t] = "idle"
    /\ calls > 0
    /\ WriteLockFree
    /\ calls' = calls - 1
    /\ IF name \notin DOMAIN components
       THEN /\ Return(t, [op |-> "Unregister", name |-> name,
                          err |-> Errorf("component '%s' not found", name)])
            /\ UNCHANGED <<components, componentMeta, constraints, hist>>
       ELSE /\ components' = Delete(components, name)
            /\ componentMeta' = Delete(componentMeta, name)
            /\ constraints' = Delete(constraints, name)
            /\ hist' = [hist EXCEPT ![name].unreg = @ + 1]
            /\ Return(t, [op |-> "Unregister", name |-> name, err |-> NilError])
    /\ UNCHANGED <<mu>>
    /\ UNCHANGED <<migVars, detVars, colVars, verVars>>

\* make(map...): a new map at an address not in use
NewRef(hp) == CHOOSE r \in 1..(Cardinality(DOMAIN hp) + 1) : r \notin DOMAIN hp

\* a missing key reads as the zero value
Count(m, k) == IF k \in DOMAIN m THEN m[k] ELSE 0

MapRefs(cm) == {cm.VersionMetrics, cm.LastAccessed, cm.ErrorCounts}

\* the maps a handed-out value points to
SnapshotRefs(snap) ==
    CASE snap.op = "GetMetrics" /\ snap.found -> MapRefs(snap.value)
      [] snap.op = "GetAllMetrics" ->
           UNION {MapRefs(snap.value[c]) : c \in DOMAIN snap.value}
      [] OTHER -> {}

\* the maps still referenced by the collector or by the handed-out value
Live(ms, snap, hp) ==
    [r \in (DOMAIN hp) \cap
           (UNION {MapRefs(ms[c]) : c \in DOMAIN ms} \cup SnapshotRefs(snap)) |-> hp[r]]

\* RecordRequest / RecordError, lines 26-33 and 45-52: the ComponentMetrics of
\* the component, made if there is none
WithComponentMetrics(ms, hp, component) ==
    IF component \in DOMAIN ms THEN [metrics |-> ms, heap |-> hp]
    ELSE LET r1 == NewRef(hp)
             hp1 == Put(hp, r1, EmptyMap)
             r2 == NewRef(hp1)
             hp2 == Put(hp1, r2, EmptyMap)
             r3 == NewRef(hp2)
         IN [metrics |-> Put(ms, component,
                             [Component |-> component, VersionMetrics |-> r1,
                              LastAccessed |-> r2, ErrorCounts |-> r3]),
             heap |-> Put(hp2, r3, EmptyMap)]

\* a RecordRequest that counts nothing
StoreNoRequest(ms, hp, component, versionStr, count, now) == hp

\* lines 35-37 on a collector state
StoreRequest(ms, hp, component, versionStr, count, now) ==
    [hp EXCEPT ![ms[component].VersionMetrics] = Put(@, versionStr, count + 1),
               ![ms[component].LastAccessed] = Put(@, versionStr, now)]

\* lines 54-55 on a collector state
StoreError(ms, hp, component, versionStr, count) ==
    [hp EXCEPT ![ms[component].ErrorCounts] = Put(@, versionStr, count + 1)]

Bump(counts, component, versionStr) ==
    Put(counts, <<component, versionStr>>, Count(counts, <<component, versionStr>>) + 1)

\* the Manager's call of RecordRequest or RecordError, to its end
RecordNow(op, component, version) ==
    LET made == WithComponentMetrics(metrics, heap, component)
        versionStr == Str(String(version))
        cm == made.metrics[component]
    IN /\ cmu = NoThread
       /\ metrics' = made.metrics
       /\ IF op = "RecordRequest"
          THEN /\ heap' = StoreRequest(made.metrics, made.heap, component, versionStr,
                              Count(made.heap[cm.VersionMetrics], versionStr), clock + 1)
               /\ clock' = clock + 1
               /\ recorded' = [recorded EXCEPT !.requests = Bump(@, component, versionStr)]
          ELSE /\ heap' = StoreError(made.metrics, made.heap, component, versionStr,
                              Count(made.heap[cm.ErrorCounts], versionStr))
               /\ recorded' = [recorded EXCEPT !.errors = Bump(@, component, versionStr)]
               /\ UNCHANGED clock
       /\ UNCHANGED <<metricsCollector, cmu, snapshot>>

\* every count the collector holds, its maps read through
Counted ==
    [component \in DOMAIN metrics |->
        [VersionMetrics |-> heap[metrics[component].VersionMetrics],
         ErrorCounts |-> heap[metrics[component].ErrorCounts]]]

\* ProcessVersioned never records the error of a failed call
RecordsNoError(op, err) == FALSE

\* ProcessVersioned, lines 251-254 and 258-260: the error is recorded when a
\* collector is set; Get itself records none
RecordsError(op, err) ==
    op = "ProcessVersioned" /\ err # NilError /\ metricsCollector

\* Get, or the Get that ProcessVersioned starts with: the lookup under the read
\* lock, and the not-found return
GetEnter(t, op, name, version) ==
    /\ pc[t] = "idle"
    /\ calls > 0
    /\ LockFree
    /\ calls' = calls - 1
    /\ IF name \notin DOMAIN components
       THEN /\ Return(t, [op |-> op, name |-> name, version |-> version,
                          exists |-> FALSE, looked |-> NilComponent,
                          component |-> NilComponent, before |-> Counted,
                          err |-> Errorf("component '%s' not found", name)])
            /\ IF RecordsError(op, Errorf("component '%s' not found", name))
               THEN RecordNow("RecordError", name, version)
               ELSE UNCHANGED colVars
       ELSE /\ pc' = [pc EXCEPT ![t] = "GetCheck"]
            /\ frame' = [frame EXCEPT ![t] = [op |-> op, name |-> name,
                                              version |-> version,
                                              component |-> components[name],
                                              before |-> Counted]]
            /\ UNCHANGED ret
            /\ UNCHANGED colVars
    /\ UNCHANGED <<components, componentMeta, constraints, mu, hist>>
    /\ UNCHANGED <<migVars, detVars, verVars>>

\* Get, lines 135-160
Get(t, name, version) == GetEnter(t, "Get", name, version)

\* ProcessVersioned, lines 249-264
ProcessVersioned(t, name, version) == GetEnter(t, "ProcessVersioned", name, version)

\* the error listing only the component's default version
GetVersionErrorDefaultOnly(name, version, component) ==
    NewVersionError(name, version, <<GetDefaultVersion(component)>>,
                    [format |-> "version not supported. Supported versions: %v",
                     arg |-> <<String(GetDefaultVersion(component))>>])

\* Get, lines 144-152: the error for a version the component does not support
GetVersionError(name, version, component) ==
    NewVersionError(name, version, SupportedVersions(component),
                    [format |-> "version not supported. Supported versions: %v",
                     arg |-> [i \in 1..Len(SupportedVersions(component)) |->
                                 String(SupportedVersions(component)[i])]])

\* Get, lines 144-160: the version check on the component found, outside the lock
GetCheck(t) ==
    /\ pc[t] = "GetCheck"
    /\ LET op == frame[t].op
           name == frame[t].name
           version == frame[t].version
           component == frame[t].component
       IN IF ~IsVersionSupported(component, version)
          THEN /\ Return(t, [op |-> op, name |-> name, version |-> version,
                             exists |-> TRUE, looked |-> component,
                             component |-> NilComponent, before |-> frame[t].before,
                             err |-> GetVersionError(name, version, component)])
               /\ IF RecordsError(op, GetVersionError(name, version, component))
                  THEN RecordNow("RecordError", name, version)
                  ELSE UNCHANGED colVars
          ELSE /\ IF metricsCollector
                  THEN RecordNow("RecordRequest", name, version)
                  ELSE UNCHANGED colVars
               /\ IF op = "Get"
                  THEN Return(t, [op |-> op, name |-> name, version |-> version,
                                  exists |-> TRUE, looked |-> component,
                                  component |-> component, before |-> frame[t].before,
                                  err |-> NilError])
                  ELSE /\ pc' = [pc EXCEPT ![t] = "ProcessVersioned"]
                       /\ UNCHANGED <<frame, ret>>
    /\ UNCHANGED <<components, componentMeta, constraints, mu, calls, hist>>
    /\ UNCHANGED <<migVars, detVars, verVars>>

\* ProcessVersioned, lines 257-263: the component's ProcessVersioned returns,
\* with a response or with an error of its own
ComponentReturns(t, err) ==
    /\ pc[t] = "ProcessVersioned"
    /\ Return(t, [op |-> "ProcessVersioned", name |-> frame[t].name,
                  version |-> frame[t].version, exists |-> TRUE,
                  looked |-> frame[t].component, component |-> frame[t].component,
                  before |-> frame[t].before, err |-> err])
    /\ IF RecordsError("ProcessVersioned", err)
       THEN RecordNow("RecordError", frame[t].name, frame[t].version)
       ELSE UNCHANGED colVars
    /\ UNCHANGED <<components, componentMeta, constraints, mu, calls, hist>>
    /\ UNCHANGED <<migVars, detVars, verVars>>

\* ------------------------------------------------------------------------
\* Manager.CheckCompatibility (manager.go 275-310)
\* ------------------------------------------------------------------------
\* the conflict loop left out
NoConflict(constraint, requiredVersion) == 0

\* lines 297-304: the first conflicting version equal to the target's, 0 if none
FirstConflict(constraint, requiredVersion) ==
    LET hits == {i \in 1..Len(constraint.Conflicts) :
                    /\ requiredVersion.Major = constraint.Conflicts[i].Major
                    /\ requiredVersion.Minor = constraint.Conflicts[i].Minor
                    /\ requiredVersion.Patch = constraint.Conflicts[i].Patch}
    IN IF hits = {} THEN 0 ELSE CHOOSE i \in hits : \A j \in hits : i <= j

\* lines 287-305: one constraint of componentName against the input map
CheckConstraint(componentName, constraint, componentVersions) ==
    LET requiredComponent == constraint.Component
    IN IF requiredComponent \notin DOMAIN componentVersions THEN NilError
       ELSE LET requiredVersion == componentVersions[requiredComponent]
                version == componentVersions[componentName]
                k == FirstConflict(constraint, requiredVersion)
            IN IF ~Contains(constraint.Requires, requiredVersion)
               THEN Errorf("component '%s' version %s requires '%s' version in range %s, but got %s",
                           <<componentName, String(version), requiredComponent,
                             constraint.Requires, String(requiredVersion)>>)
               ELSE IF k # 0
               THEN Errorf("component '%s' version %s conflicts with '%s' version %s",
                           <<componentName, String(version), requiredComponent,
                             String(constraint.Conflicts[k])>>)
               ELSE NilError

\* lines 286-306: the constraints of one component, in order, up to the first error
RECURSIVE CheckConstraints(_, _, _)
CheckConstraints(componentName, cs, componentVersions) ==
    IF cs = <<>> THEN NilError
    ELSE LET err == CheckConstraint(componentName, Head(cs), componentVersions)
         IN IF err # NilError THEN err
            ELSE CheckConstraints(componentName, Tail(cs), componentVersions)

\* lines 280-307: the keys of the input map in the order the range loop visits them
RECURSIVE CheckInOrder(_, _, _)
CheckInOrder(order, stored, componentVersions) ==
    IF order = <<>> THEN NilError
    ELSE LET componentName == Head(order)
             err == IF componentName \in DOMAIN stored
                    THEN CheckConstraints(componentName, stored[componentName],
                                          componentVersions)
                    ELSE NilError
         IN IF err # NilError THEN err
            ELSE CheckInOrder(Tail(order), stored, componentVersions)

\* the orders in which a range loop may visit the keys of a map
Orders(m) ==
    {o \in [1..Cardinality(DOMAIN m) -> DOMAIN m] :
        \A i, j \in 1..Cardinality(DOMAIN m) : o[i] = o[j] => i = j}

\* CheckCompatibility under the read lock; Go leaves the order of the range
\* over the input map open
CheckCompatibility(t, componentVersions) ==
    /\ pc[t] = "idle"
    /\ calls > 0
    /\ LockFree
    /\ calls' = calls - 1
    /\ \E order \in Orders(componentVersions) :
          Return(t, [op |-> "CheckCompatibility", input |-> componentVersions,
                     stored |-> constraints,
                     err |-> CheckInOrder(order, constraints, componentVersions)])
    /\ UNCHANGED <<components, componentMeta, constraints, mu, hist>>
    /\ UNCHANGED <<migVars, detVars, colVars, verVars>>

\* ------------------------------------------------------------------------
\* The Manager under concurrent callers
\* ------------------------------------------------------------------------
\* the parts of the package a specification leaves unused
IdleMigrator ==
    /\ migrations = EmptyMap
    /\ added = EmptyMap
    /\ migrated = [op |-> "none"]
    /\ adds = 0
    /\ adding = [stage |-> "idle"]

IdleDetector ==
    /\ detector = [enabledMethods |-> <<>>]
    /\ detection = [op |-> "none"]

\* no collector configured (NewManager without WithMetricsCollector)
IdleCollector ==
    /\ metricsCollector = FALSE
    /\ metrics = EmptyMap
    /\ heap = EmptyMap
    /\ cmu = NoThread
    /\ clock = 0
    /\ snapshot = [op |-> "none"]
    /\ recorded = [requests |-> EmptyMap, errors |-> EmptyMap]

\* no function of version.go under evaluation
IdleVersions == evaluated = [stage |-> "none"]

IdleOthers == IdleMigrator /\ IdleDetector /\ IdleCollector /\ IdleVersions

RegistryComponents ==
    {ExampleUserService, ExampleUserServiceB, ExampleProductService}

RegistryNames == Names \cup {"missing"}

RegistryVersions == {NewVersion(1, 0, 0), NewVersion(3, 0, 0)}

RegistryConstraints ==
    <<[Component |-> "products",
       Requires |-> NewVersionRange(NewVersion(1, 0, 0), NewVersion(1, 1, 0)),
       Conflicts |-> <<>>]>>

InitRegistry == NewManager(Threads, MaxCalls) /\ IdleOthers

NextRegistry ==
    \E t \in Threads :
        \/ \E c \in RegistryComponents : Register(t, c)
        \/ RegisterCheck(t)
        \/ RegisterStore(t)
        \/ \E c \in RegistryComponents : RegisterWithConstraints(t, c, RegistryConstraints)
        \/ RegisterWithConstraintsStore(t)
        \/ \E n \in RegistryNames : Unregister(t, n)
        \/ \E n \in RegistryNames, v \in RegistryVersions : Get(t, n, v)
        \/ GetCheck(t)

SpecRegistry == InitRegistry /\ [][NextRegistry]_vars

\* C1: when several threads race to Register components of one name (and the
\* name was never unregistered), exactly one call succeeds, every other call
\* returns the name-conflict error, and the registry holds one component entry
\* and one meta entry for the name.
RegisterRaceHasOneWinner ==
    \A n \in Names :
        hist[n].unreg = 0 =>
            /\ hist[n].ok <= 1
            /\ hist[n].done > 0 =>
                  /\ hist[n].ok = 1
                  /\ hist[n].conflict = hist[n].done - 1
                  /\ n \in DOMAIN components
                  /\ n \in DOMAIN componentMeta
                  /\ componentMeta[n].Name = n

\* two calls for "users" were in flight together: one returned the conflict
\* error while the other thread had already started its own Register
RegisterRaceSeen ==
    /\ hist["users"].unreg = 0
    /\ hist["users"].done = 2
    /\ hist["users"].ok = 1
    /\ hist["users"].conflict = 1
    /\ calls = MaxCalls - 2

\* C2: Get of a name that is not registered returns no component and a
\* ComponentNotFoundError, whose code is COMPONENT_NOT_FOUND, for every version.
GetMissingIsComponentNotFound ==
    (ret.call.op = "Get" /\ ~ret.call.exists) =>
        /\ ret.call.component = NilComponent
        /\ ret.call.err.type = "ComponentNotFoundError"
        /\ GetVersionErrorCode(ret.call.err) = "COMPONENT_NOT_FOUND"

\* C3: Get of a registered component that does not support the version returns
\* no component and a VersionError carrying the name, the requested version, the
\* component's complete list of supported versions and VERSION_NOT_SUPPORTED.
GetUnsupportedIsVersionError ==
    (/\ ret.call.op = "Get"
     /\ ret.call.exists
     /\ \A i \in 1..Len(ret.call.looked.supportedVersions) :
           Compare(ret.call.looked.supportedVersions[i], ret.call.version) # 0) =>
        /\ ret.call.component = NilComponent
        /\ ret.call.err.type = "VersionError"
        /\ ret.call.err.Component = ret.call.name
        /\ ret.call.err.RequestedVersion = ret.call.version
        /\ ret.call.err.SupportedVersions = ret.call.looked.supportedVersions
        /\ ret.call.err.Code = "VERSION_NOT_SUPPORTED"
        /\ GetVersionErrorCode(ret.call.err) = "VERSION_NOT_SUPPORTED"

GetUnsupportedSeen ==
    /\ ret.call.op = "Get"
    /\ ret.call.exists
    /\ ret.call.looked = ExampleUserServiceB
    /\ ret.call.version = NewVersion(3, 0, 0)
    /\ ret.call.err # NilError

\* ------------------------------------------------------------------------
\* The Manager under one caller
\* ------------------------------------------------------------------------
MainThread == 1

ManagerComponents ==
    {NilComponent, UnnamedService, ExampleUserService, ExampleUserServiceB,
     ExampleProductService}

ProductsInRange ==
    [Component |-> "products",
     Requires |-> NewVersionRange(NewVersion(1, 0, 0), NewVersion(1, 1, 0)),
     Conflicts |-> <<NewVersionWithLabel(1, 0, 0, <<"r", "c">>)>>]

UsersExact ==
    [Component |-> "users",
     Requires |-> NewExactVersions(<<NewVersion(2, 0, 0)>>),
     Conflicts |-> <<>>]

ProductsAny ==
    [Component |-> "products",
     Requires |-> NewVersionRange(ZeroVersion, ZeroVersion),
     Conflicts |-> <<NewVersion(2, 0, 0), NewVersion(1, 1, 0)>>]

BillingExact ==
    [Component |-> "billing",
     Requires |-> NewExactVersions(<<NewVersion(1, 0, 0)>>),
     Conflicts |-> <<>>]

ConstraintLists ==
    {<<ProductsInRange>>, <<UsersExact>>, <<BillingExact, ProductsAny>>}

InputVersions == {NewVersion(1, 0, 0), NewVersion(1, 1, 0), NewVersion(2, 0, 0)}

\* the maps handed to CheckCompatibility: any of the names, each at any version
InputMaps ==
    UNION {[S -> InputVersions] : S \in SUBSET Names}

InitManager == NewManager({MainThread}, MaxSeqCalls) /\ IdleOthers

NextManager ==
    \/ \E c \in ManagerComponents : Register(MainThread, c)
    \/ RegisterCheck(MainThread)
    \/ RegisterStore(MainThread)
    \/ \E c \in ManagerComponents, cs \in ConstraintLists :
          RegisterWithConstraints(MainThread, c, cs)
    \/ RegisterWithConstraintsStore(MainThread)
    \/ \E n \in RegistryNames : Unregister(MainThread, n)
    \/ \E input \in InputMaps : CheckCompatibility(MainThread, input)

SpecManager == InitManager /\ [][NextManager]_vars

\* a stored constraint of holder that the input violates
Violated(stored, holder, input) ==
    \E i \in 1..Len(stored[holder]) :
        LET c == stored[holder][i]
        IN /\ c.Component \in DOMAIN input
           /\ \/ ~Contains(c.Requires, input[c.Component])
              \/ \E k \in 1..Len(c.Conflicts) :
                    /\ c.Conflicts[k].Major = input[c.Component].Major
                    /\ c.Conflicts[k].Minor = input[c.Component].Minor
                    /\ c.Conflicts[k].Patch = input[c.Component].Patch

DefaultMethods ==
    <<"Accept Header", "API-Version Header", "X-API-Version Header",
      "Query Parameter", "URL Path", "Context Value", "Default">>

DefaultAcceptPrefix ==
    <<"a", "p", "p", "l", "i", "c", "a", "t", "i", "o", "n", "/",
      "v", "n", "d", ".", "a", "p", "i", ".", "v">>

\* NewDetector with no options
NewDetector ==
    [defaultVersion |-> DefaultVersion,
     acceptHeaderPrefix |-> DefaultAcceptPrefix,
     queryParamName |-> "version",
     contextKey |-> "api_version",
     enabledMethods |-> DefaultMethods]

NoMatch == [version |-> ZeroVersion, source |-> <<>>]

\* url.Values.Get and context.Value: the empty string, or no value, when absent
QueryGet(query, name) == IF name \in DOMAIN query THEN query[name] ELSE <<>>

NoValue == [kind |-> "none"]

ContextValue(ctx, key) == IF key \in DOMAIN ctx THEN ctx[key] ELSE NoValue

detectFromAcceptHeader(d, r) ==
    LET accept == r.Accept
    IN IF accept = <<>> THEN NoMatch
       ELSE IF StringsContains(accept, d.acceptHeaderPrefix)
       THEN LET parts == Split(accept, d.acceptHeaderPrefix)
                versionPart == Split(parts[2], <<"+">>)[1]
                version == ParseVersion(<<"v">> \o versionPart)
            IN IF Len(parts) > 1 /\ ~IsZero(version)
               THEN [version |-> version, source |-> accept]
               ELSE NoMatch
       ELSE NoMatch

\* detectFromAPIVersionHeader, detectFromXAPIVersionHeader and
\* detectFromQueryParameter: the raw value parsed as a version
detectFromValue(versionStr) ==
    IF versionStr = <<>> THEN NoMatch
    ELSE IF ~IsZero(ParseVersion(versionStr))
    THEN [version |-> ParseVersion(versionStr), source |-> versionStr]
    ELSE NoMatch

detectFromURLPath(r) ==
    LET path == TrimPrefix(r.Path, <<"/">>)
        parts == Split(path, <<"/">>)
    IN IF path = <<>> THEN NoMatch
       ELSE IF HasPrefix(parts[1], <<"v">>) /\ ~IsZero(ParseVersion(parts[1]))
       THEN [version |-> ParseVersion(parts[1]), source |-> parts[1]]
       ELSE NoMatch

\* the source of a context match is the context key itself for a typed
\* Version, and the string found for a string value
detectFromContext(d, ctx) ==
    LET value == ContextValue(ctx, d.contextKey)
    IN IF value.kind = "Version"
       THEN [version |-> value.version, source |-> d.contextKey]
       ELSE IF value.kind = "string" /\ value.string # <<>>
                 /\ ~IsZero(ParseVersion(value.string))
       THEN [version |-> ParseVersion(value.string), source |-> value.string]
       ELSE NoMatch

\* one case of the switch in DetectFromHTTPRequest (lines 126-175)
DetectBy(d, method, r) ==
    CASE method = "Accept Header" -> detectFromAcceptHeader(d, r)
      [] method = "API-Version Header" -> detectFromValue(r.APIVersion)
      [] method = "X-API-Version Header" -> detectFromValue(r.XAPIVersion)
      [] method = "Query Parameter" -> detectFromValue(QueryGet(r.Query, d.queryParamName))
      [] method = "URL Path" -> detectFromURLPath(r)
      [] method = "Context Value" -> detectFromContext(d, r.Context)
      [] OTHER -> NoMatch

DefaultResult(d) ==
    [Version |-> d.defaultVersion, Method |-> "Default", Source |-> "default_version"]

\* the loop of lines 125-176 with the enabled methods read back to front,
\* so that the last match wins
RECURSIVE DetectLastWins(_, _, _)
DetectLastWins(d, methods, r) ==
    IF methods = <<>> THEN DefaultResult(d)
    ELSE LET m == methods[Len(methods)]
             match == DetectBy(d, m, r)
         IN IF ~IsZero(match.version)
            THEN [Version |-> match.version, Method |-> m, Source |-> match.source]
            ELSE DetectLastWins(d, SubSeq(methods, 1, Len(methods) - 1), r)

\* the loop of lines 125-176 over the methods still to try, then the fallback
RECURSIVE DetectLoop(_, _, _)
DetectLoop(d, methods, r) ==
    IF methods = <<>> THEN DefaultResult(d)
    ELSE LET match == DetectBy(d, Head(methods), r)
         IN IF ~IsZero(match.version)
            THEN [Version |-> match.version, Method |-> Head(methods),
                  Source |-> match.source]
            ELSE DetectLoop(d, Tail(methods), r)

DetectFromHTTPRequest(r) ==
    /\ detection' = [op |-> "DetectFromHTTPRequest", request |-> r,
                     result |-> DetectLoop(detector, detector.enabledMethods, r)]
    /\ UNCHANGED detector
    /\ UNCHANGED <<mgrVars, migVars, colVars, verVars>>

WithEnabledMethods(d, methods) == [d EXCEPT !.enabledMethods = methods]

WithDefaultVersion(d, version) == [d EXCEPT !.defaultVersion = version]

WithContextKey(d, key) == [d EXCEPT !.contextKey = key]

\* the detectors the requests are handed to
Detectors ==
    {NewDetector,
     WithEnabledMethods(NewDetector, <<"Query Parameter">>),
     WithEnabledMethods(NewDetector, <<"URL Path", "X-API-Version Header", "Accept Header">>),
     WithEnabledMethods(NewDetector, <<"Default", "Context Value", "API-Version Header">>),
     WithDefaultVersion(WithContextKey(WithEnabledMethods(NewDetector,
         <<"Context Value", "Query Parameter">>), "tenant_version"), NewVersion(2, 0, 0))}

AcceptV2 == DefaultAcceptPrefix \o <<"2", "+", "j", "s", "o", "n">>

\* the requests: every combination of the places a version can come from
Requests ==
    [Accept : {<<>>, AcceptV2, <<"t", "e", "x", "t", "/", "h", "t", "m", "l">>},
     APIVersion : {<<>>, <<"v", "1", ".", "5", ".", "0">>},
     XAPIVersion : {<<>>, <<"l", "a", "t", "e", "s", "t">>},
     Query : {EmptyMap, Put(EmptyMap, "version", <<"v", "2", ".", "1", ".", "0">>)},
     Path : {<<"/", "a", "p", "i", "/", "u", "s", "e", "r", "s">>,
             <<"/", "v", "1", ".", "5", "/", "u", "s", "e", "r", "s">>},
     Context : {EmptyMap,
                Put(EmptyMap, "api_version", [kind |-> "Version", version |-> NewVersion(1, 1, 0)]),
                Put(EmptyMap, "tenant_version", [kind |-> "string", string |-> <<"v", "4">>])}]

InitDetector ==
    /\ NewManager({}, 0)
    /\ IdleMigrator
    /\ IdleCollector
    /\ IdleVersions
    /\ detector \in Detectors
    /\ detection = [op |-> "none"]

NextDetector == \E r \in Requests : DetectFromHTTPRequest(r)

SpecDetector == InitDetector /\ [][NextDetector]_vars

\* the positions, in the configured order, of the methods that find a version
Matching(d, r) ==
    {i \in 1..Len(d.enabledMethods) : ~IsZero(DetectBy(d, d.enabledMethods[i], r).version)}

\* C5: DetectFromHTTPRequest returns the result of the first enabled method, in
\* the configured order, that yields a non-zero version, tagged with that method
\* and its source; with no match it returns the default version, method Default,
\* source "default_version".  With the default order a matching Accept header
\* wins over every other source; with only the query method enabled the query
\* value wins also when an Accept header is present.
DetectUsesFirstEnabledMatch ==
    detection.op = "DetectFromHTTPRequest" =>
        LET r == detection.request
            res == detection.result
            hits == Matching(detector, r)
        IN /\ hits = {} =>
                 res = [Version |-> detector.defaultVersion, Method |-> "Default",
                        Source |-> "default_version"]
           /\ hits # {} =>
                 \E i \in hits :
                    /\ \A j \in hits : i <= j
                    /\ res.Method = detector.enabledMethods[i]
                    /\ res.Version = DetectBy(detector, res.Method, r).version
                    /\ res.Source = DetectBy(detector, res.Method, r).source
           /\ (detector = NewDetector /\ r.Accept = AcceptV2) =>
                 /\ res.Method = "Accept Header"
                 /\ res.Version.Major = 2
                 /\ res.Source = AcceptV2
           /\ (detector.enabledMethods = <<"Query Parameter">> /\ r.Query # EmptyMap) =>
                 /\ res.Method = "Query Parameter"
                 /\ res.Version = ParseVersion(<<"v", "2", ".", "1", ".", "0">>)
                 /\ res.Source = <<"v", "2", ".", "1", ".", "0">>

\* a request with an Accept header, both version headers, a query value and a
\* versioned path, resolved by a detector whose order puts the path first
DetectPrecedenceSeen ==
    /\ detection.op = "DetectFromHTTPRequest"
    /\ detector.enabledMethods = <<"URL Path", "X-API-Version Header", "Accept Header">>
    /\ detection.request.Accept = AcceptV2
    /\ detection.request.XAPIVersion # <<>>
    /\ detection.request.Query # EmptyMap
    /\ detection.request.Path[2] = "v"
    /\ detection.result.Method = "URL Path"

\* ------------------------------------------------------------------------
\* Migrator (migration.go)
\* ------------------------------------------------------------------------
\* interface{} values: nil, ints, strings, map[string]interface{}, maps of
\* another type, structs
Nil == [kind |-> "nil"]

IntVal(i) == [kind |-> "int", int |-> i]

StrVal(str) == [kind |-> "string", string |-> str]

MapVal(m) == [kind |-> "map", map |-> m]

\* fmt.Sprintf("%v", value) of the scalar values
Sprint(value) ==
    CASE value.kind = "int" -> StrVal(Itoa(value.int))
      [] value.kind = "string" -> value
      [] OTHER -> StrVal(<<"<", "n", "i", "l", ">">>)

NoFunc == "nil"

\* the MigrationFuncs callers store: one that wraps what it was called with,
\* one that fails
CallFunc(fn, from, to, input) ==
    IF fn = "wrap"
    THEN [val |-> [kind |-> "wrapped", from |-> String(from), to |-> String(to),
                   input |-> input],
          err |-> NilError]
    ELSE [val |-> Nil, err |-> Errorf("custom migration failed", "")]

NilMigration == [Strategy |-> "nil"]

\* a key made of the major numbers instead of the version strings
migrationKeyByMajor(from, to) == Str(Itoa(from.Major)) \o "-" \o Str(Itoa(to.Major))

migrationKey(from, to) == Str(String(from)) \o "-" \o Str(String(to))

reverseTransform(transform) == ""

\* the mappings handed back as they are
sameFieldMappings(mappings) == mappings

reverseFieldMappings(mappings) ==
    [i \in 1..Len(mappings) |->
        [FromField |-> mappings[i].ToField,
         ToField |-> mappings[i].FromField,
         Transform |-> reverseTransform(mappings[i].Transform),
         DefaultValue |-> Nil,
         Required |-> mappings[i].Required]]

\* AddMigration, lines 88-95: the synthesized reverse entry (CustomFunc is not
\* among the fields it sets)
ReverseMigration(migration) ==
    [FromVersion |-> migration.ToVersion,
     ToVersion |-> migration.FromVersion,
     Strategy |-> migration.Strategy,
     FieldMappings |-> reverseFieldMappings(migration.FieldMappings),
     CustomFunc |-> NoFunc,
     Reversible |-> FALSE,
     Description |-> "Reverse migration: " \o migration.Description]

\* AddMigration, lines 82-97, on a table with these keys for the two directions
StoreMigration(table, migration, key, reverseKey) ==
    LET forward == Put(table, key, migration)
    IN IF migration.Reversible
       THEN Put(forward, reverseKey, ReverseMigration(migration))
       ELSE forward

PairKey(from, to) == <<from, to>>

Lookup(table, key) == IF key \in DOMAIN table THEN table[key] ELSE NilMigration

AddMigration(migration) ==
    /\ adds > 0
    /\ adds' = adds - 1
    /\ IF migration = NilMigration
       THEN /\ migrated' = [op |-> "AddMigration", migration |-> migration,
                            before |-> NilMigration,
                            err |-> Errorf("migration cannot be nil", "")]
            /\ UNCHANGED <<migrations, added>>
       ELSE /\ migrations' = StoreMigration(migrations, migration,
                                migrationKey(migration.FromVersion, migration.ToVersion),
                                migrationKey(migration.ToVersion, migration.FromVersion))
            /\ added' = StoreMigration(added, migration,
                                PairKey(migration.FromVersion, migration.ToVersion),
                                PairKey(migration.ToVersion, migration.FromVersion))
            /\ migrated' = [op |-> "AddMigration", migration |-> migration,
                            before |-> Lookup(migrations,
                                migrationKey(migration.ToVersion, migration.FromVersion)),
                            err |-> NilError]
    /\ UNCHANGED <<adding, mgrVars, detVars, colVars, verVars>>

AddCustomMigration(from, to, migrationFunc, reversible, description) ==
    AddMigration([FromVersion |-> from, ToVersion |-> to, Strategy |-> "custom",
                  FieldMappings |-> <<>>, CustomFunc |-> migrationFunc,
                  Reversible |-> reversible, Description |-> description])

AddAutomaticMigration(from, to, fieldMappings, reversible) ==
    AddMigration([FromVersion |-> from, ToVersion |-> to, Strategy |-> "automatic",
                  FieldMappings |-> fieldMappings, CustomFunc |-> NoFunc,
                  Reversible |-> reversible,
                  Description |-> "Automatic migration from " \o Str(String(from))
                                     \o " to " \o Str(String(to))])

\* every hook a passthrough
untransformedValue(value, transform) == value

transformValue(value, transform) ==
    IF transform = "" THEN value
    ELSE IF transform = "string" THEN Sprint(value)
    ELSE value

\* migrateMapData, lines 245-259: the mappings in order, up to the first
\* required field that is missing
RECURSIVE ApplyMappings(_, _, _)
ApplyMappings(mappings, inputMap, resultMap) ==
    IF mappings = <<>> THEN [map |-> resultMap, err |-> NilError]
    ELSE LET mapping == Head(mappings)
         IN IF mapping.FromField \in DOMAIN inputMap
            THEN ApplyMappings(Tail(mappings), inputMap,
                     Put(resultMap, mapping.ToField,
                         transformValue(inputMap[mapping.FromField], mapping.Transform)))
            ELSE IF mapping.DefaultValue # Nil
            THEN ApplyMappings(Tail(mappings), inputMap,
                     Put(resultMap, mapping.ToField, mapping.DefaultValue))
            ELSE IF mapping.Required
            THEN [map |-> resultMap,
                  err |-> Errorf("required field %s is missing", mapping.FromField)]
            ELSE ApplyMappings(Tail(mappings), inputMap, resultMap)

\* a migration that keeps the mapped fields only
DropUnmapped(mappings, inputMap, resultMap) == resultMap

\* migrateMapData, lines 262-273: the input fields no mapping reads, copied last
CopyUnmapped(mappings, inputMap, resultMap) ==
    LET unmapped == {key \in DOMAIN inputMap :
                        \A i \in 1..Len(mappings) : mappings[i].FromField # key}
    IN [key \in (DOMAIN resultMap) \cup unmapped |->
           IF key \in unmapped THEN inputMap[key] ELSE resultMap[key]]

\* the migration done in the input map itself instead of in a fresh result map
migrateMapDataInPlace(migration, input) ==
    IF input.kind # "map"
    THEN [val |-> Nil, err |-> Errorf("input is not a map[string]interface{}", ""),
          input |-> input]
    ELSE LET applied == ApplyMappings(migration.FieldMappings, input.map, input.map)
         IN IF applied.err # NilError
            THEN [val |-> Nil, err |-> applied.err, input |-> MapVal(applied.map)]
            ELSE [val |-> MapVal(CopyUnmapped(migration.FieldMappings, input.map, applied.map)),
                  err |-> NilError,
                  input |-> MapVal(CopyUnmapped(migration.FieldMappings, input.map, applied.map))]

\* migrateMapData: the result, the error, and the caller's input as it is left
migrateMapData(migration, input) ==
    IF input.kind # "map"
    THEN [val |-> Nil, err |-> Errorf("input is not a map[string]interface{}", ""),
          input |-> input]
    ELSE LET applied == ApplyMappings(migration.FieldMappings, input.map, EmptyMap)
         IN IF applied.err # NilError
            THEN [val |-> Nil, err |-> applied.err, input |-> input]
            ELSE [val |-> MapVal(CopyUnmapped(migration.FieldMappings, input.map, applied.map)),
                  err |-> NilError, input |-> input]

\* structToMap: the exported fields under their json tag, or their name
RECURSIVE structToMap(_, _)
structToMap(fields, result) ==
    IF fields = <<>> THEN result
    ELSE LET field == Head(fields)
             fieldName == IF field.json # "" /\ field.json # "-" THEN field.json
                          ELSE field.name
         IN IF ~field.exported THEN structToMap(Tail(fields), result)
            ELSE structToMap(Tail(fields), Put(result, fieldName, field.value))

migrateStructData(migration, input) ==
    LET res == migrateMapData(migration, MapVal(structToMap(input.fields, EmptyMap)))
    IN [res EXCEPT !.input = input]

performAutomaticMigration(component, migration, input) ==
    IF input = Nil THEN [val |-> Nil, err |-> NilError, input |-> input]
    ELSE IF input.kind \notin {"struct", "map", "typedmap"}
    THEN [val |-> input, err |-> NilError, input |-> input]
    ELSE LET res == IF input.kind = "struct" THEN migrateStructData(migration, input)
                    ELSE migrateMapData(migration, input)
         IN IF res.err # NilError
            THEN [val |-> Nil,
                  err |-> NewMigrationError(component, migration.FromVersion,
                              migration.ToVersion, "automatic migration failed", res.err),
                  input |-> res.input]
            ELSE res

performFallbackMigration(component, migration, input) ==
    performAutomaticMigration(component, migration, input)

MigratorComponent == "users"

NotAdding == [stage |-> "idle"]

NewMigrator(component, budget) ==
    /\ migrations = EmptyMap
    /\ added = EmptyMap
    /\ migrated = [op |-> "none"]
    /\ adds = budget
    /\ adding = NotAdding

NoCall == [fn |-> NoFunc]

\* the from.Compare(to) == 0 test skipped
NeverSameVersion(from, to) == FALSE

\* Migrate line 132, CanMigrate line 166
SameVersion(from, to) == Compare(from, to) = 0

\* Migrate: the value and error returned, the custom function call made, the
\* key looked up ("" when none is), the caller's input as it is left
MigrateResult(from, to, input) ==
    LET key == migrationKey(from, to)
        failure(message) ==
            [val |-> Nil,
             err |-> NewMigrationError(MigratorComponent, from, to, message, NilError),
             input |-> input, called |-> NoCall, looked |-> key]
    IN IF SameVersion(from, to)
       THEN [val |-> input, err |-> NilError, input |-> input, called |-> NoCall,
             looked |-> ""]
       ELSE IF key \notin DOMAIN migrations THEN failure("no migration path available")
       ELSE LET migration == migrations[key]
            IN CASE migration.Strategy = "none" -> failure("migration not supported")
                 [] migration.Strategy = "custom" ->
                      IF migration.CustomFunc = NoFunc
                      THEN failure("custom migration function not provided")
                      ELSE LET res == CallFunc(migration.CustomFunc, from, to, input)
                           IN [val |-> res.val, err |-> res.err, input |-> input,
                               called |-> [fn |-> migration.CustomFunc, from |-> from,
                                           to |-> to, input |-> input],
                               looked |-> key]
                 [] migration.Strategy = "automatic" ->
                      LET res == performAutomaticMigration(MigratorComponent, migration, input)
                      IN [val |-> res.val, err |-> res.err, input |-> res.input,
                          called |-> NoCall, looked |-> key]
                 [] migration.Strategy = "fallback" ->
                      LET res == performFallbackMigration(MigratorComponent, migration, input)
                      IN [val |-> res.val, err |-> res.err, input |-> res.input,
                          called |-> NoCall, looked |-> key]
                 [] OTHER -> failure("unsupported migration strategy: unknown")

Migrate(from, to, input) ==
    /\ migrated' = [op |-> "Migrate", from |-> from, to |-> to, given |-> input,
                    res |-> MigrateResult(from, to, input), saw |-> migrations]
    /\ UNCHANGED <<migrations, added, adds, adding>>
    /\ UNCHANGED <<mgrVars, detVars, colVars, verVars>>

\* any entry that leaves from counts as a path
CanMigrateFrom(from, to) ==
    \/ SameVersion(from, to)
    \/ \E key \in DOMAIN migrations : migrations[key].FromVersion = from

CanMigrateResult(from, to) ==
    IF SameVersion(from, to) THEN TRUE
    ELSE migrationKey(from, to) \in DOMAIN migrations

CanMigrate(from, to) ==
    /\ migrated' = [op |-> "CanMigrate", from |-> from, to |-> to,
                    ok |-> CanMigrateResult(from, to), saw |-> migrations]
    /\ UNCHANGED <<migrations, added, adds, adding>>
    /\ UNCHANGED <<mgrVars, detVars, colVars, verVars>>

\* ------------------------------------------------------------------------
\* The migration table: AddMigration and its wrappers, Migrate, CanMigrate
\* ------------------------------------------------------------------------
\* the versions the table is configured for, and the versions asked about
TableVersions == {NewVersion(1, 0, 0), NewVersion(2, 0, 0)}

MigrationVersions == TableVersions \cup {ParseVersion(<<"v", "1">>)}

\* a rename and an added field with a default
TableMappings ==
    <<[FromField |-> "name", ToField |-> "display_name", Transform |-> "",
       DefaultValue |-> Nil, Required |-> TRUE],
      [FromField |-> "", ToField |-> "version", Transform |-> "",
       DefaultValue |-> StrVal(<<"2">>), Required |-> FALSE]>>

MigrationFuncs == {NoFunc, "wrap", "fail"}

Migrations ==
    {NilMigration} \cup
    [FromVersion : TableVersions, ToVersion : TableVersions,
     Strategy : {"none", "fallback"}, FieldMappings : {TableMappings},
     CustomFunc : {NoFunc}, Reversible : BOOLEAN, Description : {"table entry"}]

UserRecord ==
    [kind |-> "struct",
     fields |-> <<[name |-> "ID", json |-> "id", exported |-> TRUE, value |-> IntVal(123)],
                  [name |-> "Name", json |-> "", exported |-> TRUE,
                   value |-> StrVal(<<"J", "o">>)],
                  [name |-> "secret", json |-> "name", exported |-> FALSE,
                   value |-> StrVal(<<"x">>)]>>]

MigrateInputs ==
    {Nil, IntVal(7),
     MapVal([f \in {"id", "name"} |->
                IF f = "id" THEN IntVal(123) ELSE StrVal(<<"J", "o">>)]),
     MapVal([f \in {"id"} |-> IntVal(123)]),
     [kind |-> "typedmap", map |-> [f \in {"name"} |-> <<"J", "o">>]],
     UserRecord}

InitMigrator ==
    /\ NewManager({}, 0)
    /\ IdleDetector
    /\ IdleVersions
    /\ IdleCollector
    /\ NewMigrator(MigratorComponent, MaxAdds)

NextMigrator ==
    \/ \E migration \in Migrations : AddMigration(migration)
    \/ \E from \in TableVersions, to \in TableVersions,
          migrationFunc \in MigrationFuncs, reversible \in BOOLEAN :
          AddCustomMigration(from, to, migrationFunc, reversible, "custom entry")
    \/ \E from \in TableVersions, to \in TableVersions, reversible \in BOOLEAN :
          AddAutomaticMigration(from, to, TableMappings, reversible)
    \/ \E from \in MigrationVersions, to \in MigrationVersions, input \in MigrateInputs :
          Migrate(from, to, input)
    \/ \E from \in MigrationVersions, to \in MigrationVersions : CanMigrate(from, to)

SpecMigrator == InitMigrator /\ [][NextMigrator]_vars

\* the entry stored for the ordered pair (from, to), if any
EntryFor(from, to) == Lookup(added, PairKey(from, to))

\* a required mapping of the entry finds neither its source field nor a default
MissingRequired(entry, inputMap) ==
    \E i \in 1..Len(entry.FieldMappings) :
        /\ entry.FieldMappings[i].FromField \notin DOMAIN inputMap
        /\ entry.FieldMappings[i].DefaultValue = Nil
        /\ entry.FieldMappings[i].Required

\* C6: for from different from to, Migrate acts on exactly the entry stored for
\* the ordered pair (from, to): a MigrationError when there is no entry, when
\* its strategy is None, or when it is Custom without a function; the stored
\* function's result for (from, to, input) when it is Custom; the field-mapping
\* transform when it is Automatic or Fallback, a field-mapping violation
\* surfacing as a MigrationError.
MigrateUsesStoredEntry ==
    (migrated.op = "Migrate" /\ Compare(migrated.from, migrated.to) # 0) =>
        LET entry == EntryFor(migrated.from, migrated.to)
            input == migrated.given
            res == migrated.res
        IN CASE \/ entry = NilMigration
                \/ entry.Strategy = "none"
                \/ entry.Strategy = "custom" /\ entry.CustomFunc = NoFunc ->
                     /\ res.err.type = "MigrationError"
                     /\ res.val = Nil
                     /\ res.called = NoCall
             [] entry.Strategy = "custom" /\ entry.CustomFunc # NoFunc ->
                     /\ res.called = [fn |-> entry.CustomFunc, from |-> migrated.from,
                                      to |-> migrated.to, input |-> input]
                     /\ res.val = CallFunc(entry.CustomFunc, migrated.from,
                                           migrated.to, input).val
                     /\ res.err = CallFunc(entry.CustomFunc, migrated.from,
                                           migrated.to, input).err
             [] entry.Strategy \in {"automatic", "fallback"} ->
                     /\ res.called = NoCall
                     /\ res.err = NilError \/ res.err.type = "MigrationError"
                     /\ input.kind = "map" =>
                          /\ (res.err # NilError) <=> MissingRequired(entry, input.map)
                          /\ res.err = NilError =>
                               /\ res.val.kind = "map"
                               /\ \A i \in 1..Len(entry.FieldMappings) :
                                    entry.FieldMappings[i].FromField \in DOMAIN input.map =>
                                        entry.FieldMappings[i].ToField \in DOMAIN res.val.map

\* a stored function was called for its pair while the opposite pair holds
\* another entry
MigrateCustomSeen ==
    /\ migrated.op = "Migrate"
    /\ migrated.res.called # NoCall
    /\ PairKey(migrated.to, migrated.from) \in DOMAIN added

\* C7: Migrate(v, v, x) returns x unchanged and no error, whatever the table
\* holds: no key is looked up and no stored function is called.
MigrateSameVersionIsIdentity ==
    (migrated.op = "Migrate" /\ migrated.from = migrated.to) =>
        /\ migrated.res.val = migrated.given
        /\ migrated.res.err = NilError
        /\ migrated.res.input = migrated.given
        /\ migrated.res.looked = ""
        /\ migrated.res.called = NoCall

\* Migrate(v, v, x) with a function stored at (v, v)
MigrateSameVersionSeen ==
    /\ migrated.op = "Migrate"
    /\ migrated.from = migrated.to
    /\ migrated.given # Nil
    /\ EntryFor(migrated.from, migrated.to) # NilMigration
    /\ EntryFor(migrated.from, migrated.to).Strategy = "custom"
    /\ EntryFor(migrated.from, migrated.to).CustomFunc # NoFunc

\* what AddMigration(m) leaves in the table, as C10 states it
AddMigrationOutcome(m, before) ==
    LET forward == migrationKey(m.FromVersion, m.ToVersion)
        reverse == migrationKey(m.ToVersion, m.FromVersion)
    IN IF m.Reversible
       THEN /\ Lookup(migrations, forward) = m
            /\ reverse \in DOMAIN migrations
            /\ Len(migrations[reverse].FieldMappings) = Len(m.FieldMappings)
            /\ \A i \in 1..Len(m.FieldMappings) :
                 /\ migrations[reverse].FieldMappings[i].FromField = m.FieldMappings[i].ToField
                 /\ migrations[reverse].FieldMappings[i].ToField = m.FieldMappings[i].FromField
                 /\ migrations[reverse].FieldMappings[i].DefaultValue = Nil
            /\ migrations[reverse].Reversible = FALSE
            /\ CanMigrateResult(m.ToVersion, m.FromVersion)
       ELSE Lookup(migrations, reverse) = before

FieldMapping(from, to, transform, default, required) ==
    [FromField |-> from, ToField |-> to, Transform |-> transform,
     DefaultValue |-> default, Required |-> required]

\* ExampleMigrator, lines 161-165
ExampleMappings ==
    <<FieldMapping("name", "display_name", "", Nil, TRUE),
      FieldMapping("email", "email", "", Nil, TRUE),
      FieldMapping("id", "user_id", "", Nil, TRUE)>>

HookMappings ==
    <<FieldMapping("id", "user_id", "string", Nil, TRUE),
      FieldMapping("nickname", "display_name", "", StrVal(<<"a", "n", "o", "n">>), FALSE),
      FieldMapping("email", "contact", "upper", Nil, FALSE)>>

SharedDestination ==
    <<FieldMapping("name", "label", "", Nil, FALSE),
      FieldMapping("email", "label", "", Nil, FALSE)>>

FieldMappingLists == {ExampleMappings, HookMappings, SharedDestination}

FieldNames == {"id", "name", "email", "role", "display_name", "nickname"}

FieldValue(field) ==
    CASE field = "id" -> IntVal(123)
      [] field = "name" -> StrVal(<<"J", "o">>)
      [] field = "email" -> StrVal(<<"j", "@", "x">>)
      [] field = "role" -> StrVal(<<"a", "d", "m", "i", "n">>)
      [] field = "nickname" -> StrVal(<<"j">>)
      [] OTHER -> StrVal(<<"o", "l", "d">>)

\* ExampleMigrator, lines 175-180
ExampleInput ==
    MapVal([field \in {"id", "name", "email", "role"} |-> FieldValue(field)])

FieldInputs ==
    {MapVal([field \in fields |-> FieldValue(field)]) : fields \in SUBSET FieldNames}
    \cup {UserRecord, [kind |-> "typedmap", map |-> [f \in {"name"} |-> <<"J", "o">>]]}

NextFieldMap ==
    \/ \E fieldMappings \in FieldMappingLists, reversible \in BOOLEAN :
          AddAutomaticMigration(NewVersion(1, 0, 0), NewVersion(2, 0, 0),
                                fieldMappings, reversible)
    \/ \E fieldMappings \in FieldMappingLists :
          AddMigration([FromVersion |-> NewVersion(1, 0, 0),
                        ToVersion |-> NewVersion(2, 0, 0),
                        Strategy |-> "fallback", FieldMappings |-> fieldMappings,
                        CustomFunc |-> NoFunc, Reversible |-> FALSE,
                        Description |-> "fallback entry"])
    \/ \E from \in TableVersions, to \in TableVersions, input \in FieldInputs :
          Migrate(from, to, input)

SpecFieldMap == InitMigrator /\ [][NextFieldMap]_vars

\* a field-mapping migration of a map was made: the entry used, the input map
FieldMapped ==
    /\ migrated.op = "Migrate"
    /\ Compare(migrated.from, migrated.to) # 0
    /\ migrated.given.kind = "map"
    /\ EntryFor(migrated.from, migrated.to) # NilMigration
    /\ EntryFor(migrated.from, migrated.to).Strategy \in {"automatic", "fallback"}

\* the value a hook makes of a source value: "string" formats it, every other
\* hook hands it on
Hooked(value, transform) == IF transform = "string" THEN Sprint(value) ELSE value

\* input fields that no mapping names as its source
Unmapped(mappings, inputMap) ==
    {key \in DOMAIN inputMap : \A i \in 1..Len(mappings) : mappings[i].FromField # key}

\* what the mapping promises, given that it is the one to decide its destination
MappingOutcome(mapping, inputMap, res, decides) ==
    IF mapping.FromField \in DOMAIN inputMap
    THEN (res.err = NilError /\ decides) =>
            /\ mapping.ToField \in DOMAIN res.val.map
            /\ res.val.map[mapping.ToField] =
                   Hooked(inputMap[mapping.FromField], mapping.Transform)
    ELSE IF mapping.DefaultValue # Nil
    THEN (res.err = NilError /\ decides) =>
            /\ mapping.ToField \in DOMAIN res.val.map
            /\ res.val.map[mapping.ToField] = mapping.DefaultValue
    ELSE IF mapping.Required
    THEN res.err # NilError
    ELSE TRUE

\* no other mapping has the destination and no unmapped input field is named
\* like it
SoleWriter(mappings, i, inputMap) ==
    /\ \A j \in 1..Len(mappings) : j # i => mappings[j].ToField # mappings[i].ToField
    /\ mappings[i].ToField \notin Unmapped(mappings, inputMap)

\* a mapping that is skipped leaves its destination out of the output when
\* nothing else writes it
SkippedWritesNothing(mappings, i, inputMap, res) ==
    (/\ mappings[i].FromField \notin DOMAIN inputMap
     /\ mappings[i].DefaultValue = Nil
     /\ ~mappings[i].Required
     /\ res.err = NilError
     /\ SoleWriter(mappings, i, inputMap)) =>
        mappings[i].ToField \notin DOMAIN res.val.map

\* C8 as stated: for every mapping of a field-mapping migration of a map, a
\* present source leaves its hook-transformed value at the destination, an
\* absent source with a default leaves the default there, an absent source
\* without default fails the migration if required and writes nothing if not.
MappingDecidesDestination ==
    FieldMapped =>
        LET mappings == EntryFor(migrated.from, migrated.to).FieldMappings
        IN \A i \in 1..Len(mappings) :
              /\ MappingOutcome(mappings[i], migrated.given.map, migrated.res, TRUE)
              /\ SkippedWritesNothing(mappings, i, migrated.given.map, migrated.res)

\* C8 amended: the same for every mapping whose destination is not the
\* destination of a later mapping and not the name of an input field that no
\* mapping names as its source.
LastWriterDecidesDestination ==
    FieldMapped =>
        LET mappings == EntryFor(migrated.from, migrated.to).FieldMappings
        IN \A i \in 1..Len(mappings) :
              /\ MappingOutcome(mappings[i], migrated.given.map, migrated.res,
                    /\ \A j \in (i + 1)..Len(mappings) :
                          mappings[j].ToField # mappings[i].ToField
                    /\ mappings[i].ToField \notin Unmapped(mappings, migrated.given.map))
              /\ SkippedWritesNothing(mappings, i, migrated.given.map, migrated.res)

\* a migration that formatted a number with the "string" hook and filled in a
\* default
HookAndDefaultSeen ==
    /\ FieldMapped
    /\ migrated.res.err = NilError
    /\ EntryFor(migrated.from, migrated.to).FieldMappings = HookMappings
    /\ "id" \in DOMAIN migrated.given.map
    /\ "nickname" \notin DOMAIN migrated.given.map
    /\ "email" \notin DOMAIN migrated.given.map
    /\ "display_name" \notin DOMAIN migrated.given.map

\* destinations the mappings write for this input
Written(mappings, inputMap) ==
    {mappings[i].ToField : i \in {j \in 1..Len(mappings) :
        \/ mappings[j].FromField \in DOMAIN inputMap
        \/ mappings[j].DefaultValue # Nil}}

\* C9: a field-mapping migration copies every input field that is no mapping's
\* source to the output under its name with its value, the output has no keys
\* but these and the destinations the mappings wrote, the ExampleMigrator
\* mappings turn {id, name, email, role} into {display_name, email, user_id,
\* role} with the original values, and the input map is left as it was.
UnmappedFieldsCopied ==
    (FieldMapped /\ migrated.res.err = NilError) =>
        LET mappings == EntryFor(migrated.from, migrated.to).FieldMappings
            inputMap == migrated.given.map
            output == migrated.res.val.map
        IN /\ \A key \in Unmapped(mappings, inputMap) :
                 key \in DOMAIN output /\ output[key] = inputMap[key]
           /\ DOMAIN output = Unmapped(mappings, inputMap) \cup Written(mappings, inputMap)
           /\ (mappings = ExampleMappings /\ migrated.given = ExampleInput) =>
                 output = [field \in {"display_name", "email", "user_id", "role"} |->
                              CASE field = "display_name" -> StrVal(<<"J", "o">>)
                                [] field = "email" -> StrVal(<<"j", "@", "x">>)
                                [] field = "user_id" -> IntVal(123)
                                [] OTHER -> StrVal(<<"a", "d", "m", "i", "n">>)]
           /\ migrated.res.input = migrated.given

\* the ExampleMigrator migration was made
ExampleMigrationSeen ==
    /\ FieldMapped
    /\ migrated.res.err = NilError
    /\ EntryFor(migrated.from, migrated.to).FieldMappings = ExampleMappings
    /\ migrated.given = ExampleInput

\* ------------------------------------------------------------------------
\* Chains of migrations: three versions, several entries
\* ------------------------------------------------------------------------
GetMigrationPath(from, to) ==
    /\ migrated' =
         [op |-> "GetMigrationPath", from |-> from, to |-> to,
          path |-> IF SameVersion(from, to) THEN <<>>
                   ELSE IF migrationKey(from, to) \in DOMAIN migrations
                   THEN <<migrations[migrationKey(from, to)]>>
                   ELSE <<>>,
          err |-> IF SameVersion(from, to) \/ migrationKey(from, to) \in DOMAIN migrations
                  THEN NilError
                  ELSE NewMigrationError(MigratorComponent, from, to,
                                         "no migration path found", NilError)]
    /\ UNCHANGED <<migrations, added, adds, adding>>
    /\ UNCHANGED <<mgrVars, detVars, colVars, verVars>>

HopVersions == {NewVersion(1, 0, 0), NewVersion(2, 0, 0), NewVersion(3, 0, 0)}

InitHops ==
    /\ NewManager({}, 0)
    /\ IdleDetector
    /\ IdleVersions
    /\ IdleCollector
    /\ NewMigrator(MigratorComponent, MaxHops)

NextHops ==
    \/ \E from \in HopVersions, to \in HopVersions, reversible \in BOOLEAN :
          AddAutomaticMigration(from, to, TableMappings, reversible)
    \/ \E from \in HopVersions, to \in HopVersions :
          AddCustomMigration(from, to, "wrap", FALSE, "custom entry")
    \/ \E from \in HopVersions, to \in HopVersions, input \in {Nil, ExampleInput} :
          Migrate(from, to, input)
    \/ \E from \in HopVersions, to \in HopVersions : CanMigrate(from, to)
    \/ \E from \in HopVersions, to \in HopVersions : GetMigrationPath(from, to)

SpecHops == InitHops /\ [][NextHops]_vars

\* C11: CanMigrate(from, to) is true exactly when from equals to or an entry
\* for the ordered pair (from, to) is in the table; without that entry Migrate
\* fails and GetMigrationPath finds nothing, whatever other entries (a, b) and
\* (b, c) the table holds.
CanMigrateIsSingleHop ==
    LET direct == \/ Compare(migrated.from, migrated.to) = 0
                  \/ EntryFor(migrated.from, migrated.to) # NilMigration
    IN /\ migrated.op = "CanMigrate" => (migrated.ok <=> direct)
       /\ (migrated.op = "Migrate" /\ ~direct) => migrated.res.err # NilError
       /\ (migrated.op = "GetMigrationPath" /\ ~direct) =>
             migrated.err # NilError /\ migrated.path = <<>>

\* CanMigrate(a, c) asked of a table that holds (a, b) and (b, c) but not (a, c)
TwoHopsSeen ==
    /\ migrated.op = "CanMigrate"
    /\ Compare(migrated.from, migrated.to) # 0
    /\ EntryFor(migrated.from, migrated.to) = NilMigration
    /\ \E b \in HopVersions \ {migrated.from, migrated.to} :
          /\ EntryFor(migrated.from, b) # NilMigration
          /\ EntryFor(b, migrated.to) # NilMigration

\* ------------------------------------------------------------------------
\* AddMigration on one goroutine while others call Migrate and CanMigrate
\* ------------------------------------------------------------------------
\* AddMigration entered: nil check passed, the first map write is next
AddMigrationEnter(migration) ==
    /\ adding = NotAdding
    /\ adds > 0
    /\ migration # NilMigration
    /\ adds' = adds - 1
    /\ adding' = [stage |-> "forward", migration |-> migration, before |-> migrations]
    /\ UNCHANGED <<migrations, added, migrated>>
    /\ UNCHANGED <<mgrVars, detVars, colVars, verVars>>

\* line 83: m.migrations[key] = migration
AddMigrationForward ==
    /\ adding.stage = "forward"
    /\ migrations' = Put(migrations,
           migrationKey(adding.migration.FromVersion, adding.migration.ToVersion),
           adding.migration)
    /\ added' = Put(added,
           PairKey(adding.migration.FromVersion, adding.migration.ToVersion),
           adding.migration)
    /\ adding' = IF adding.migration.Reversible
                 THEN [adding EXCEPT !.stage = "reverse"]
                 ELSE NotAdding
    /\ UNCHANGED <<migrated, adds>>
    /\ UNCHANGED <<mgrVars, detVars, colVars, verVars>>

\* line 96: m.migrations[reverseKey] = reverseMigration
AddMigrationReverse ==
    /\ adding.stage = "reverse"
    /\ migrations' = Put(migrations,
           migrationKey(adding.migration.ToVersion, adding.migration.FromVersion),
           ReverseMigration(adding.migration))
    /\ added' = Put(added,
           PairKey(adding.migration.ToVersion, adding.migration.FromVersion),
           ReverseMigration(adding.migration))
    /\ adding' = NotAdding
    /\ UNCHANGED <<migrated, adds>>
    /\ UNCHANGED <<mgrVars, detVars, colVars, verVars>>

\* a map read that overlaps a map write of the unsynchronized table: the Go
\* runtime may stop the program ("concurrent map read and map write"); when it
\* does not, the read is the Migrate or CanMigrate step on the table as it is
ConcurrentMapRead ==
    /\ adding.stage \in {"forward", "reverse"}
    /\ migrated' = [op |-> "fatal", message |-> "concurrent map read and map write"]
    /\ adding' = [stage |-> "crashed"]
    /\ adds' = 0
    /\ UNCHANGED <<migrations, added>>
    /\ UNCHANGED <<mgrVars, detVars, colVars, verVars>>

Running == adding.stage # "crashed"

ReloadMigrations ==
    {[FromVersion |-> from, ToVersion |-> to, Strategy |-> "automatic",
      FieldMappings |-> TableMappings, CustomFunc |-> NoFunc,
      Reversible |-> reversible, Description |-> "reloaded"] :
        from \in TableVersions, to \in TableVersions, reversible \in BOOLEAN}

NextReload ==
    \/ \E migration \in ReloadMigrations : AddMigrationEnter(migration)
    \/ AddMigrationForward
    \/ AddMigrationReverse
    \/ ConcurrentMapRead
    \/ Running /\ \E from \in TableVersions, to \in TableVersions,
                     input \in {Nil, ExampleInput} : Migrate(from, to, input)
    \/ Running /\ \E from \in TableVersions, to \in TableVersions : CanMigrate(from, to)

SpecReload == InitMigrator /\ [][NextReload]_vars

\* the table as AddMigration(migration) leaves a table
AfterAdd(table, migration) ==
    StoreMigration(table, migration,
        migrationKey(migration.FromVersion, migration.ToVersion),
        migrationKey(migration.ToVersion, migration.FromVersion))

\* C12: a Migrate or CanMigrate that runs while an AddMigration is under way
\* reads the table as it was before that AddMigration or as it is after it
\* completed, never a table in between, and the program is not stopped by the
\* overlap.
ReadersSeeWholeAdds ==
    /\ migrated.op # "fatal"
    /\ (migrated.op \in {"Migrate", "CanMigrate"} /\ adding.stage \in {"forward", "reverse"}) =>
          \/ migrated.saw # migrations
          \/ migrations = adding.before
          \/ migrations = AfterAdd(adding.before, adding.migration)

\* ------------------------------------------------------------------------
\* DefaultMetricsCollector (metrics.go)
\* ------------------------------------------------------------------------
\* a collector lock that is always granted
CollectorLockIgnored == TRUE

CollectorLockFree == cmu = NoThread

\* RecordRequest / RecordError up to the read of the counter: Lock, the nil
\* check, the current count
RecordEnter(t, op, component, version) ==
    /\ pc[t] = "idle"
    /\ calls > 0
    /\ CollectorLockFree
    /\ calls' = calls - 1
    /\ cmu' = t
    /\ LET made == WithComponentMetrics(metrics, heap, component)
           versionStr == Str(String(version))
           counts == IF op = "RecordRequest"
                     THEN made.heap[made.metrics[component].VersionMetrics]
                     ELSE made.heap[made.metrics[component].ErrorCounts]
       IN /\ metrics' = made.metrics
          /\ heap' = made.heap
          /\ frame' = [frame EXCEPT ![t] = [op |-> op, component |-> component,
                                           version |-> versionStr,
                                           count |-> Count(counts, versionStr)]]
    /\ pc' = [pc EXCEPT ![t] = op]
    /\ UNCHANGED <<components, componentMeta, constraints, mu, ret, hist>>
    /\ UNCHANGED <<metricsCollector, clock, snapshot, recorded>>
    /\ UNCHANGED <<migVars, detVars, verVars>>

RecordRequest(t, component, version) == RecordEnter(t, "RecordRequest", component, version)

RecordError(t, component, version) == RecordEnter(t, "RecordError", component, version)

\* the write of the incremented counter, and Unlock
RecordStore(t) ==
    /\ pc[t] \in {"RecordRequest", "RecordError"}
    /\ LET component == frame[t].component
           versionStr == frame[t].version
       IN IF component \notin DOMAIN metrics
          THEN /\ Return(t, [op |-> "panic", message |-> "nil pointer dereference"])
               /\ UNCHANGED <<heap, clock, recorded>>
          ELSE /\ Return(t, [op |-> frame[t].op, component |-> component,
                             version |-> versionStr])
               /\ IF frame[t].op = "RecordRequest"
                  THEN /\ heap' = StoreRequest(metrics, heap, component, versionStr,
                                               frame[t].count, clock + 1)
                       /\ clock' = clock + 1
                       /\ recorded' = [recorded EXCEPT
                                          !.requests = Bump(@, component, versionStr)]
                  ELSE /\ heap' = StoreError(metrics, heap, component, versionStr,
                                             frame[t].count)
                       /\ recorded' = [recorded EXCEPT
                                          !.errors = Bump(@, component, versionStr)]
                       /\ UNCHANGED clock
    /\ cmu' = IF cmu = t THEN NoThread ELSE cmu
    /\ UNCHANGED <<components, componentMeta, constraints, mu, calls, hist>>
    /\ UNCHANGED <<metricsCollector, metrics, snapshot>>
    /\ UNCHANGED <<migVars, detVars, verVars>>

\* the very map handed back instead of a copy
shareInt64Map(hp, original) == [ref |-> original, heap |-> hp]

\* copyInt64Map, lines 111-117: a new map with the entries of the original
copyInt64Map(hp, original) ==
    [ref |-> NewRef(hp), heap |-> Put(hp, NewRef(hp), hp[original])]

\* copyStringMap, lines 119-125
copyStringMap(hp, original) ==
    [ref |-> NewRef(hp), heap |-> Put(hp, NewRef(hp), hp[original])]

\* GetMetrics lines 65-70, GetAllMetrics lines 83-88: the struct of copies
CopyMetrics(hp, cm) ==
    LET vm == copyInt64Map(hp, cm.VersionMetrics)
        la == copyStringMap(vm.heap, cm.LastAccessed)
        ec == copyInt64Map(la.heap, cm.ErrorCounts)
    IN [value |-> [Component |-> cm.Component, VersionMetrics |-> vm.ref,
                   LastAccessed |-> la.ref, ErrorCounts |-> ec.ref],
        heap |-> ec.heap]

\* what a ComponentMetrics struct holds, its maps read through
Deep(hp, cm) ==
    [Component |-> cm.Component, VersionMetrics |-> hp[cm.VersionMetrics],
     LastAccessed |-> hp[cm.LastAccessed], ErrorCounts |-> hp[cm.ErrorCounts]]

NilMetrics == [Component |-> "nil"]

\* a collector read by thread t is one step under the read lock
CollectorRead(t) ==
    /\ pc[t] = "idle"
    /\ calls > 0
    /\ CollectorLockFree
    /\ calls' = calls - 1
    /\ UNCHANGED <<components, componentMeta, constraints, mu, pc, frame, ret, hist>>
    /\ UNCHANGED <<metricsCollector, metrics, cmu, clock, recorded>>
    /\ UNCHANGED <<migVars, detVars, verVars>>

GetMetrics(t, component) ==
    /\ CollectorRead(t)
    /\ IF component \in DOMAIN metrics
       THEN LET copied == CopyMetrics(heap, metrics[component])
                handed == [op |-> "GetMetrics", component |-> component, found |-> TRUE,
                           value |-> copied.value,
                           taken |-> Deep(copied.heap, copied.value)]
            IN /\ snapshot' = handed
               /\ heap' = Live(metrics, handed, copied.heap)
       ELSE /\ snapshot' = [op |-> "GetMetrics", component |-> component,
                            found |-> FALSE, value |-> NilMetrics, taken |-> NilMetrics]
            /\ heap' = Live(metrics, snapshot', heap)

\* GetAllMetrics, lines 81-89: a copy of every component's metrics
RECURSIVE CopyAll(_, _, _, _)
CopyAll(todo, ms, hp, result) ==
    IF todo = {} THEN [value |-> result, heap |-> hp]
    ELSE LET component == CHOOSE c \in todo : TRUE
             copied == CopyMetrics(hp, ms[component])
         IN CopyAll(todo \ {component}, ms, copied.heap,
                    Put(result, component, copied.value))

GetAllMetrics(t) ==
    /\ CollectorRead(t)
    /\ LET copied == CopyAll(DOMAIN metrics, metrics, heap, EmptyMap)
           handed == [op |-> "GetAllMetrics", found |-> TRUE, value |-> copied.value,
                      taken |-> [c \in DOMAIN copied.value |->
                                    Deep(copied.heap, copied.value[c])]]
       IN /\ snapshot' = handed
          /\ heap' = Live(metrics, handed, copied.heap)

\* Reset, lines 95-100
Reset(t) ==
    /\ pc[t] = "idle"
    /\ calls > 0
    /\ CollectorLockFree
    /\ calls' = calls - 1
    /\ metrics' = EmptyMap
    /\ heap' = Live(EmptyMap, snapshot, heap)
    /\ recorded' = [requests |-> EmptyMap, errors |-> EmptyMap]
    /\ UNCHANGED <<components, componentMeta, constraints, mu, pc, frame, ret, hist>>
    /\ UNCHANGED <<metricsCollector, cmu, clock, snapshot>>
    /\ UNCHANGED <<migVars, detVars, verVars>>

\* the caller of GetMetrics or GetAllMetrics writes into the maps it was handed
WriteSnapshot(component, versionStr, n) ==
    /\ snapshot.op \in {"GetMetrics", "GetAllMetrics"}
    /\ snapshot.found
    /\ snapshot.op = "GetMetrics" => component = snapshot.component
    /\ snapshot.op = "GetAllMetrics" => component \in DOMAIN snapshot.value
    /\ LET cm == IF snapshot.op = "GetMetrics" THEN snapshot.value
                 ELSE snapshot.value[component]
           written(seen) == [seen EXCEPT !.VersionMetrics = Put(@, versionStr, n),
                                         !.ErrorCounts = Put(@, versionStr, n)]
       IN /\ heap' = [heap EXCEPT ![cm.VersionMetrics] = Put(@, versionStr, n),
                                  ![cm.ErrorCounts] = Put(@, versionStr, n)]
          /\ snapshot' = IF snapshot.op = "GetMetrics"
                         THEN [snapshot EXCEPT !.taken = written(@)]
                         ELSE [snapshot EXCEPT !.taken[component] = written(@)]
    /\ UNCHANGED <<metricsCollector, metrics, cmu, clock, recorded>>
    /\ UNCHANGED <<mgrVars, migVars, detVars, verVars>>

\* GetUsageStats, lines 160-179: the loop over VersionMetrics in one order
RECURSIVE ScanVersions(_, _, _, _)
ScanVersions(order, counts, lastAccessed, acc) ==
    IF order = <<>> THEN acc
    ELSE LET version == Head(order)
             count == counts[version]
             most == count > acc.mostUsedCount
             least == acc.leastUsedCount = -1 \/ count < acc.leastUsedCount
             later == /\ version \in DOMAIN lastAccessed
                      /\ acc.latestActivity = 0 \/ lastAccessed[version] > acc.latestActivity
         IN ScanVersions(Tail(order), counts, lastAccessed,
               [totalRequests |-> acc.totalRequests + count,
                mostUsedCount |-> IF most THEN count ELSE acc.mostUsedCount,
                mostUsedVersion |-> IF most THEN version ELSE acc.mostUsedVersion,
                leastUsedCount |-> IF least THEN count ELSE acc.leastUsedCount,
                leastUsedVersion |-> IF least THEN version ELSE acc.leastUsedVersion,
                latestActivity |-> IF later THEN lastAccessed[version]
                                   ELSE acc.latestActivity])

RECURSIVE SumCounts(_)
SumCounts(counts) ==
    IF DOMAIN counts = {} THEN 0
    ELSE LET k == CHOOSE x \in DOMAIN counts : TRUE
         IN counts[k] + SumCounts(Delete(counts, k))

\* a float64 quotient, kept as the two integers divided; the zero value is 0/1
Quotient(num, den) == [num |-> num, den |-> den]

\* GetUsageStats, lines 141-203, on the copy GetMetrics made
UsageStats(component, copy, order) ==
    LET scan == ScanVersions(order, copy.VersionMetrics, copy.LastAccessed,
                    [totalRequests |-> 0, mostUsedCount |-> 0, mostUsedVersion |-> "",
                     leastUsedCount |-> -1, leastUsedVersion |-> "",
                     latestActivity |-> 0])
        totalErrors == SumCounts(copy.ErrorCounts)
    IN [Component |-> component,
        TotalRequests |-> scan.totalRequests,
        TotalErrors |-> totalErrors,
        MostUsedVersion |-> scan.mostUsedVersion,
        LeastUsedVersion |-> scan.leastUsedVersion,
        LastActivity |-> scan.latestActivity,
        ErrorRate |-> IF scan.totalRequests > 0
                      THEN Quotient(totalErrors, scan.totalRequests)
                      ELSE Quotient(0, 1),
        VersionBreakdown |-> [version \in DOMAIN copy.VersionMetrics |->
                                 Quotient(copy.VersionMetrics[version] * 100,
                                          scan.totalRequests)]]

\* the calls recorded for a component, over all its versions
CallsFor(counts, component) ==
    SumCounts([key \in {k \in DOMAIN counts : k[1] = component} |-> counts[key]])

GetUsageStats(t, component) ==
    /\ CollectorRead(t)
    /\ IF component \notin DOMAIN metrics
       THEN snapshot' = [op |-> "GetUsageStats", component |-> component, found |-> FALSE,
                         requests |-> CallsFor(recorded.requests, component),
                         errors |-> CallsFor(recorded.errors, component)]
       ELSE \E order \in Orders(heap[metrics[component].VersionMetrics]) :
               snapshot' = [op |-> "GetUsageStats", component |-> component, found |-> TRUE,
                            stats |-> UsageStats(component,
                                                 Deep(heap, metrics[component]), order),
                            requests |-> CallsFor(recorded.requests, component),
                            errors |-> CallsFor(recorded.errors, component)]
    /\ heap' = Live(metrics, snapshot', heap)

\* ------------------------------------------------------------------------
\* Threads recording and reading concurrently
\* ------------------------------------------------------------------------

CollectorVersions == {NewVersion(1, 0, 0), NewVersion(2, 0, 0)}

InitCollector ==
    /\ NewManager(Threads, MaxRecords)
    /\ IdleMigrator
    /\ IdleDetector
    /\ IdleVersions
    /\ metricsCollector = FALSE
    /\ metrics = EmptyMap
    /\ heap = EmptyMap
    /\ cmu = NoThread
    /\ clock = 0
    /\ snapshot = [op |-> "none"]
    /\ recorded = [requests |-> EmptyMap, errors |-> EmptyMap]

NextCollector ==
    \E t \in Threads :
        \/ \E version \in CollectorVersions : RecordRequest(t, "users", version)
        \/ \E version \in CollectorVersions : RecordError(t, "users", version)
        \/ RecordStore(t)
        \/ GetUsageStats(t, "users")
        \/ Reset(t)

SpecCollector == InitCollector /\ [][NextCollector]_vars

\* what the collector holds for (component, version) in one of its count maps
Held(component, versionStr, field) ==
    IF component \in DOMAIN metrics
    THEN Count(heap[metrics[component][field]], versionStr)
    ELSE 0

\* every counter of the collector equals the number of completed calls for it
CountersMatchCalls ==
    \A component \in Names, version \in CollectorVersions :
        /\ Held(component, Str(String(version)), "VersionMetrics") =
               Count(recorded.requests, <<component, Str(String(version))>>)
        /\ Held(component, Str(String(version)), "ErrorCounts") =
               Count(recorded.errors, <<component, Str(String(version))>>)

\* the totals GetUsageStats reported are the numbers of calls made
StatsMatchCalls ==
    /\ snapshot.stats.TotalRequests = snapshot.requests
    /\ snapshot.stats.TotalErrors = snapshot.errors
    /\ snapshot.requests = 0 => snapshot.stats.ErrorRate.num = 0

InitSnapshots ==
    /\ NewManager({MainThread}, MaxRecords)
    /\ IdleMigrator
    /\ IdleDetector
    /\ IdleVersions
    /\ metricsCollector = FALSE
    /\ metrics = EmptyMap
    /\ heap = EmptyMap
    /\ cmu = NoThread
    /\ clock = 0
    /\ snapshot = [op |-> "none"]
    /\ recorded = [requests |-> EmptyMap, errors |-> EmptyMap]

NextSnapshots ==
    \/ \E component \in Names : RecordRequest(MainThread, component, NewVersion(1, 0, 0))
    \/ \E component \in Names : RecordError(MainThread, component, NewVersion(1, 0, 0))
    \/ RecordStore(MainThread)
    \/ \E component \in Names : GetMetrics(MainThread, component)
    \/ GetAllMetrics(MainThread)
    \/ Reset(MainThread)
    \/ \E component \in Names : WriteSnapshot(component, "v2.0.0", 99)

SpecSnapshots == InitSnapshots /\ [][NextSnapshots]_vars

\* C16: what GetMetrics or GetAllMetrics handed out stays as its caller has it
\* (later RecordRequest, RecordError and Reset calls do not change it), and
\* what the caller writes into its maps does not change the collector's counts.
SnapshotsAreIndependent ==
    /\ (snapshot.op = "GetMetrics" /\ snapshot.found) =>
          Deep(heap, snapshot.value) = snapshot.taken
    /\ snapshot.op = "GetAllMetrics" =>
          \A component \in DOMAIN snapshot.value :
              Deep(heap, snapshot.value[component]) = snapshot.taken[component]
    /\ CountersMatchCalls

\* a snapshot its caller wrote into, with a request recorded after it was taken
SnapshotOutlivedSeen ==
    /\ snapshot.op = "GetMetrics"
    /\ snapshot.found
    /\ Count(snapshot.taken.VersionMetrics, "v2.0.0") = 99
    /\ Count(snapshot.taken.VersionMetrics, "v1.0.0") = 1
    /\ Held(snapshot.component, "v1.0.0", "VersionMetrics") = 2

\* ------------------------------------------------------------------------
\* A Manager with a metrics collector (manager.go 33-37, 135-160, 249-264)
\* ------------------------------------------------------------------------
MaxMetricCalls == 4

\* WithMetricsCollector(NewDefaultMetricsCollector())
WithMetricsCollector ==
    /\ metricsCollector = TRUE
    /\ metrics = EmptyMap
    /\ heap = EmptyMap
    /\ cmu = NoThread
    /\ clock = 0
    /\ snapshot = [op |-> "none"]
    /\ recorded = [requests |-> EmptyMap, errors |-> EmptyMap]

MetricsComponents == {ExampleUserService, ExampleProductService}

MetricsVersions == {NewVersion(1, 0, 0), NewVersion(2, 0, 0), NewVersion(3, 0, 0)}

\* what a component's ProcessVersioned returns as its error
ComponentErrors == {NilError, Errorf("processing failed: %s", "input")}

InitMetrics ==
    /\ NewManager({MainThread}, MaxMetricCalls)
    /\ IdleMigrator
    /\ IdleDetector
    /\ IdleVersions
    /\ WithMetricsCollector

NextMetrics ==
    \/ \E c \in MetricsComponents : Register(MainThread, c)
    \/ RegisterCheck(MainThread)
    \/ RegisterStore(MainThread)
    \/ \E n \in Names, v \in MetricsVersions : Get(MainThread, n, v)
    \/ \E n \in Names, v \in MetricsVersions : ProcessVersioned(MainThread, n, v)
    \/ GetCheck(MainThread)
    \/ \E err \in ComponentErrors : ComponentReturns(MainThread, err)

SpecMetrics == InitMetrics /\ [][NextMetrics]_vars

MetricsKeys == {Str(String(v)) : v \in MetricsVersions}

CountIn(counted, component, field, key) ==
    IF component \in DOMAIN counted THEN Count(counted[component][field], key) ELSE 0

\* the counts of one kind are as they were before the call, but for `more` added
\* to the count of (component, key)
CountsMoved(before, field, component, key, more) ==
    \A n \in Names, k \in MetricsKeys :
        CountIn(Counted, n, field, k) =
            CountIn(before, n, field, k) + (IF n = component /\ k = key THEN more ELSE 0)

Returned(op) == pc[MainThread] = "idle" /\ ret.call.op = op

\* C13: with a collector set, when ProcessVersioned has returned an error (from
\* Get or from the component's ProcessVersioned), the error count of the
\* request's component and version is one more than before the call and no other
\* error count moved, and the error returned is the one Get or the component
\* produced.
ProcessVersionedRecordsItsError ==
    (Returned("ProcessVersioned") /\ ret.call.err # NilError) =>
        LET call == ret.call
        IN /\ CountsMoved(call.before, "ErrorCounts", call.name,
                          Str(String(call.version)), 1)
           /\ IF ~call.exists
              THEN call.err = Errorf("component '%s' not found", call.name)
              ELSE IF ~IsVersionSupported(call.looked, call.version)
              THEN call.err = GetVersionError(call.name, call.version, call.looked)
              ELSE call.err \in ComponentErrors

\* ProcessVersioned has returned the error of a component that had counted an
\* error for the same version before
ComponentErrorSeen ==
    /\ Returned("ProcessVersioned")
    /\ ret.call.exists
    /\ IsVersionSupported(ret.call.looked, ret.call.version)
    /\ ret.call.err = Errorf("processing failed: %s", "input")
    /\ CountIn(Counted, ret.call.name, "ErrorCounts", Str(String(ret.call.version))) = 2

\* C14: with a collector set, a Get that succeeded added one to the request
\* count of its name and version, moved no other request count and no error
\* count; a Get that failed moved no request count.
GetCountsOneRequest ==
    Returned("Get") =>
        LET call == ret.call
        IN IF call.err = NilError
           THEN /\ CountsMoved(call.before, "VersionMetrics", call.name,
                               Str(String(call.version)), 1)
                /\ CountsMoved(call.before, "ErrorCounts", call.name,
                               Str(String(call.version)), 0)
           ELSE CountsMoved(call.before, "VersionMetrics", call.name,
                            Str(String(call.version)), 0)

\* a second successful Get of one name and version
GetCountedTwiceSeen ==
    /\ Returned("Get")
    /\ ret.call.err = NilError
    /\ CountIn(Counted, ret.call.name, "VersionMetrics", Str(String(ret.call.version))) = 2

\* a Get that failed after a request had been counted
GetFailedSeen ==
    /\ Returned("Get")
    /\ ret.call.err # NilError
    /\ \E n \in Names, k \in MetricsKeys : CountIn(Counted, n, "VersionMetrics", k) > 0

\* ------------------------------------------------------------------------
\* Register and RegisterWithConstraints, call by call (manager.go 55-116)
\* ------------------------------------------------------------------------
\* Register refuses the component: nil, unnamed, or its name is taken
Refused(component, before) ==
    \/ component = NilComponent
    \/ component.name = ""
    \/ component.name \in DOMAIN before.components

\* C17: Register returns an error and leaves the component, meta and constraint
\* maps as they were when the component is nil, its name is empty or its name
\* is registered already (the registered component stays); otherwise it returns
\* nil and both maps hold the name, the meta entry holding the component's type,
\* supported versions and default version.
RegisterStoresOrRefuses ==
    Returned("Register") =>
        LET call == ret.call
            component == call.component
        IN IF Refused(component, call.before)
           THEN /\ call.err # NilError
                /\ Stored = call.before
           ELSE /\ call.err = NilError
                /\ component.name \in DOMAIN components
                /\ components[component.name] = component
                /\ component.name \in DOMAIN componentMeta
                /\ componentMeta[component.name].Type = component.type
                /\ componentMeta[component.name].SupportedVersions =
                       SupportedVersions(component)
                /\ componentMeta[component.name].DefaultVersion =
                       GetDefaultVersion(component)
                /\ constraints = call.before.constraints
                /\ \A n \in DOMAIN call.before.components :
                       /\ components[n] = call.before.components[n]
                       /\ componentMeta[n] = call.before.componentMeta[n]

\* a Register refused for its name, the component registered first still there
RegisterDuplicateSeen ==
    /\ Returned("Register")
    /\ ret.call.component = ExampleUserServiceB
    /\ ret.call.err # NilError
    /\ components["users"] = ExampleUserService

\* a Register that stored a component next to another one
RegisterSecondSeen ==
    /\ Returned("Register")
    /\ ret.call.err = NilError
    /\ DOMAIN components = Names

\* C18: after RegisterWithConstraints returned nil, the constraints stored for
\* the component's name and the Constraints of its meta entry are the list
\* given, and the component is registered; after it returned the error of its
\* inner Register, the three maps, the constraints and meta stored for the name
\* included, are as they were.
RegisterWithConstraintsStoresList ==
    Returned("RegisterWithConstraints") =>
        LET call == ret.call
            component == call.component
        IN IF Refused(component, call.before)
           THEN /\ call.err # NilError
                /\ Stored = call.before
           ELSE /\ call.err = NilError
                /\ components[component.name] = component
                /\ constraints[component.name] = call.constraints
                /\ componentMeta[component.name].Constraints = call.constraints
                /\ componentMeta[component.name].Type = component.type
                /\ \A n \in DOMAIN call.before.constraints :
                       constraints[n] = call.before.constraints[n]

\* a RegisterWithConstraints refused as a duplicate, with another list, while
\* the name holds the constraints of the first registration
ConstraintsKeptSeen ==
    /\ Returned("RegisterWithConstraints")
    /\ ret.call.err # NilError
    /\ ret.call.component # NilComponent
    /\ ret.call.component.name \in DOMAIN constraints
    /\ constraints[ret.call.component.name] # ret.call.constraints

\* a RegisterWithConstraints that stored its list, and a CheckCompatibility
\* that failed on it
ConstraintsUsedSeen ==
    /\ ret.call.op = "CheckCompatibility"
    /\ ret.call.err # NilError
    /\ DOMAIN ret.call.stored = {"users"}
    /\ ret.call.stored["users"] = <<ProductsInRange>>
    /\ componentMeta["users"].Constraints = <<ProductsInRange>>

\* ------------------------------------------------------------------------
\* The Manager while a component runs (manager.go 135-139, 172-183, 249-264)
\* ------------------------------------------------------------------------
MaxProcessCalls == 3

\* sort.Strings over the names in use
SortedNames == <<"products", "users">>

InList(name) == name \in DOMAIN components

\* List, lines 172-183
List(t) ==
    /\ pc[t] = "idle"
    /\ calls > 0
    /\ LockFree
    /\ calls' = calls - 1
    /\ Return(t, [op |-> "List", names |-> SelectSeq(SortedNames, InList)])
    /\ UNCHANGED <<components, componentMeta, constraints, mu, hist>>
    /\ UNCHANGED <<migVars, detVars, colVars, verVars>>

ProcessComponents == {ExampleUserService, ExampleProductService}

ProcessVersions == {NewVersion(1, 0, 0), NewVersion(3, 0, 0)}

InitProcessing == NewManager(Threads, MaxProcessCalls) /\ IdleOthers

\* what thread t may do, but for the return of the component it is inside
ManagerStep(t) ==
    \/ \E c \in ProcessComponents : Register(t, c)
    \/ RegisterCheck(t)
    \/ RegisterStore(t)
    \/ \E n \in Names : Unregister(t, n)
    \/ \E n \in Names, v \in ProcessVersions : Get(t, n, v)
    \/ \E n \in Names, v \in ProcessVersions : ProcessVersioned(t, n, v)
    \/ GetCheck(t)
    \/ List(t)

NextProcessing ==
    \E t \in Threads :
        \/ ManagerStep(t)
        \/ \E err \in ComponentErrors : ComponentReturns(t, err)

SpecProcessing == InitProcessing /\ [][NextProcessing]_vars

\* the Manager's own steps are taken when they can be; a component may take
\* for ever
SpecProcessingFair ==
    SpecProcessing /\ \A t \in Threads : WF_vars(ManagerStep(t))

Processing(t) == pc[t] = "ProcessVersioned"

InManager(u) == pc[u] \in {"RegisterCheck", "RegisterStore", "GetCheck"}

\* every call of the Manager can be started by thread u
CallsOpen(u) ==
    /\ \A c \in ProcessComponents : ENABLED Register(u, c)
    /\ \A n \in Names : ENABLED Unregister(u, n)
    /\ \A n \in Names, v \in ProcessVersions : ENABLED Get(u, n, v)
    /\ ENABLED List(u)

BothProcessingSeen == \A t \in Threads : Processing(t)

\* ------------------------------------------------------------------------
\* Version.Compare as an order (version.go 42-65)
\* ------------------------------------------------------------------------
\* versions as NewVersion, NewVersionWithLabel, ParseVersion and the zero value
\* give them: equal numbers under different labels and strings among them
ComparedVersions ==
    {ZeroVersion,
     NewVersion(0, 0, 1),
     NewVersion(1, 0, 0),
     ParseVersion(<<"v", "1">>),
     NewVersion(1, 2, 0),
     NewVersion(1, 2, 3),
     NewVersionWithLabel(1, 2, 3, <<"r", "c">>),
     NewVersion(2, 0, 0)}

InitCompare ==
    /\ NewManager({}, 0)
    /\ IdleMigrator
    /\ IdleDetector
    /\ IdleCollector
    /\ evaluated \in [stage : {"drawn"}, a : ComparedVersions, b : ComparedVersions,
                      c : ComparedVersions]

\* a.Compare(a), a.Compare(b), b.Compare(a), b.Compare(c) and a.Compare(c)
CompareAll ==
    /\ evaluated.stage = "drawn"
    /\ evaluated' = [stage |-> "compared",
                     a |-> evaluated.a, b |-> evaluated.b, c |-> evaluated.c,
                     aa |-> Compare(evaluated.a, evaluated.a),
                     ab |-> Compare(evaluated.a, evaluated.b),
                     ba |-> Compare(evaluated.b, evaluated.a),
                     bc |-> Compare(evaluated.b, evaluated.c),
                     ac |-> Compare(evaluated.a, evaluated.c)]
    /\ UNCHANGED <<mgrVars, migVars, detVars, colVars>>

NextCompare == CompareAll

SpecCompare == InitCompare /\ [][NextCompare]_vars

SameNumbers(v, w) == v.Major = w.Major /\ v.Minor = w.Minor /\ v.Patch = w.Patch

\* C20: Compare is a three-way total order on (major, minor, patch) that does
\* not look at the label: Compare(a, a) = 0, Compare(a, b) = -Compare(b, a),
\* the results are -1, 0 or 1, a <= b and b <= c give a <= c (strictly when one
\* of the two is strict), and Compare(a, b) = 0 exactly when the three numbers
\* of a and b are equal.
CompareIsTotalOrder ==
    evaluated.stage = "compared" =>
        /\ evaluated.aa = 0
        /\ evaluated.ab \in {-1, 0, 1}
        /\ evaluated.ab = -evaluated.ba
        /\ (evaluated.ab <= 0 /\ evaluated.bc <= 0) => evaluated.ac <= 0
        /\ (evaluated.ab < 0 /\ evaluated.bc <= 0) => evaluated.ac < 0
        /\ (evaluated.ab <= 0 /\ evaluated.bc < 0) => evaluated.ac < 0
        /\ (evaluated.ab = 0) <=> SameNumbers(evaluated.a, evaluated.b)

\* versions of equal numbers and different labels compared as equal, below a
\* third one that differs in the patch number only
CompareIgnoresLabelSeen ==
    /\ evaluated.stage = "compared"
    /\ evaluated.a.Label # evaluated.b.Label
    /\ evaluated.ab = 0
    /\ evaluated.a.Major = evaluated.c.Major
    /\ evaluated.a.Minor = evaluated.c.Minor
    /\ evaluated.ac = 1

\* ------------------------------------------------------------------------
\* The version the detector resolves, as a string (detector.go 210-228,
\* version.go 25-34, 198-258)
\* ------------------------------------------------------------------------
\* C21: for a request whose Accept header is application/vnd.api.v2+json,
\* whatever else it carries, the detector with the default method order yields
\* a version whose String() is "v2.0.0", the method "Accept Header" and the
\* whole Accept header value as source.
AcceptRendersCanonical ==
    (/\ detection.op = "DetectFromHTTPRequest"
     /\ detector = NewDetector
     /\ detection.request.Accept = AcceptV2) =>
        /\ String(detection.result.Version) = <<"v", "2", ".", "0", ".", "0">>
        /\ detection.result.Method = "Accept Header"
        /\ detection.result.Source = AcceptV2

\* ------------------------------------------------------------------------
\* The Manager's three maps under concurrent callers (manager.go 55-132)
\* ------------------------------------------------------------------------
\* C22: in every reachable state under concurrent Register,
\* RegisterWithConstraints and Unregister calls, the component map and the meta
\* map hold the same names, every name with stored constraints is registered,
\* and no call has failed on a missing meta record.
ManagerMapsAgree ==
    /\ DOMAIN components = DOMAIN componentMeta
    /\ DOMAIN constraints \subseteq DOMAIN components
    /\ \A t \in DOMAIN pc : pc[t] # "panic"

\* ------------------------------------------------------------------------
\* CanMigrate against Migrate (migration.go 131-173)
\* ------------------------------------------------------------------------
\* the messages of a Migrate that found nothing it could run
NothingUsable ==
    {"no migration path available", "custom migration function not provided"}

\* C23: when the table a Migrate(from, to, x) saw makes CanMigrate(from, to)
\* true and from differs from to, Migrate returns neither the 'no migration
\* path available' nor the 'custom migration function not provided' error.
CanMigrateMeansUsable ==
    (/\ migrated.op = "Migrate"
     /\ ~SameVersion(migrated.from, migrated.to)
     /\ migrationKey(migrated.from, migrated.to) \in DOMAIN migrated.saw) =>
        \/ migrated.res.err = NilError
        \/ migrated.res.err.type # "MigrationError"
        \/ migrated.res.err.Message \notin NothingUsable

\* ------------------------------------------------------------------------
\* Versions of equal value under different strings (migration.go 131-142,
\* 165-173, 303-305)
\* ------------------------------------------------------------------------
\* the pairs of versions that Compare takes for the pair (from, to)
SameValued(from, to) ==
    {pair \in MigrationVersions \X MigrationVersions :
        Compare(pair[1], from) = 0 /\ Compare(pair[2], to) = 0}

\* C24: CanMigrate and Migrate give, for every pair of versions equal by Compare
\* to the pair they were called with, what they gave for that pair: the same
\* answer of CanMigrate, and a Migrate that succeeds with the same value or
\* fails alike.
EntriesAddressedByValue ==
    /\ (migrated.op = "CanMigrate" /\ migrated.saw = migrations) =>
          \A pair \in SameValued(migrated.from, migrated.to) :
              CanMigrateResult(pair[1], pair[2]) = migrated.ok
    /\ (migrated.op = "Migrate" /\ migrated.saw = migrations) =>
          \A pair \in SameValued(migrated.from, migrated.to) :
              LET other == MigrateResult(pair[1], pair[2], migrated.given)
              IN /\ (other.err = NilError) <=> (migrated.res.err = NilError)
                 /\ other.err = NilError => other.val = migrated.res.val

\* ------------------------------------------------------------------------
\* GetLatestVersion (manager.go 163-169, 358-375)
\* ------------------------------------------------------------------------
MaxLatestCalls == 3

\* one version put into a list that is in descending order, before the first
\* one it is greater than
InsertDescending(version, sorted) ==
    LET before == {i \in 1..Len(sorted) : Compare(sorted[i], version) >= 0}
        n == Cardinality({i \in 1..Len(sorted) : \A j \in 1..i : j \in before})
    IN SubSeq(sorted, 1, n) \o <<version>> \o SubSeq(sorted, n + 1, Len(sorted))

\* sort.Slice(versions, func(i, j) { versions[i].Compare(versions[j]) > 0 }),
\* for lists without two versions of equal numbers
RECURSIVE SortDescending(_)
SortDescending(versions) ==
    IF versions = <<>> THEN <<>>
    ELSE InsertDescending(Head(versions), SortDescending(Tail(versions)))

\* GetLatestVersion, lines 358-375: the slice that SupportedVersions() returns
\* is the component's own (example_test.go 209) and is sorted in place; the
\* meta's SupportedVersions, taken from the same call at Register (manager.go
\* 81), is the same slice
GetLatestVersion(t, componentName) ==
    /\ pc[t] = "idle"
    /\ calls > 0
    /\ LockFree
    /\ calls' = calls - 1
    /\ IF componentName \notin DOMAIN components
       THEN /\ Return(t, [op |-> "GetLatestVersion", name |-> componentName,
                          version |-> ZeroVersion, before |-> Stored,
                          err |-> Errorf("component '%s' not found", componentName)])
            /\ UNCHANGED <<components, componentMeta>>
       ELSE IF SupportedVersions(components[componentName]) = <<>>
       THEN /\ Return(t, [op |-> "GetLatestVersion", name |-> componentName,
                          version |-> ZeroVersion, before |-> Stored,
                          err |-> Errorf("component '%s' has no supported versions",
                                         componentName)])
            /\ UNCHANGED <<components, componentMeta>>
       ELSE LET versions == SortDescending(SupportedVersions(components[componentName]))
            IN /\ components' = [components EXCEPT
                                    ![componentName].supportedVersions = versions]
               /\ componentMeta' = [componentMeta EXCEPT
                                       ![componentName].SupportedVersions = versions]
               /\ Return(t, [op |-> "GetLatestVersion", name |-> componentName,
                             version |-> versions[1], before |-> Stored,
                             err |-> NilError])
    /\ UNCHANGED <<constraints, mu, hist>>
    /\ UNCHANGED <<migVars, detVars, colVars, verVars>>

\* GetSupportedVersions, lines 226-233
GetSupportedVersions(t, name) ==
    /\ pc[t] = "idle"
    /\ calls > 0
    /\ LockFree
    /\ calls' = calls - 1
    /\ IF name \notin DOMAIN components
       THEN Return(t, [op |-> "GetSupportedVersions", name |-> name, versions |-> <<>>,
                       err |-> Errorf("component '%s' not found", name)])
       ELSE Return(t, [op |-> "GetSupportedVersions", name |-> name,
                       versions |-> SupportedVersions(components[name]),
                       err |-> NilError])
    /\ UNCHANGED <<components, componentMeta, constraints, mu, hist>>
    /\ UNCHANGED <<migVars, detVars, colVars, verVars>>

InitLatest == NewManager({MainThread}, MaxLatestCalls) /\ IdleOthers

NextLatest ==
    \/ \E c \in RegistryComponents : Register(MainThread, c)
    \/ RegisterCheck(MainThread)
    \/ RegisterStore(MainThread)
    \/ \E n \in Names : GetLatestVersion(MainThread, n)
    \/ \E n \in Names : GetSupportedVersions(MainThread, n)
    \/ \E n \in Names, v \in RegistryVersions : Get(MainThread, n, v)
    \/ GetCheck(MainThread)

SpecLatest == InitLatest /\ [][NextLatest]_vars

\* C25: GetLatestVersion changes nothing: the components, with their lists of
\* supported versions in their order and their default versions, and the meta
\* entries are after the call what they were before it.
GetLatestVersionReadsOnly ==
    Returned("GetLatestVersion") =>
        /\ components = ret.call.before.components
        /\ componentMeta = ret.call.before.componentMeta
        /\ \A n \in DOMAIN components :
               GetDefaultVersion(components[n]) =
                   GetDefaultVersion(ret.call.before.components[n])

\* ------------------------------------------------------------------------
\* A version carried by a context (detector.go 187-201, 285-303, 343-354)
\* ------------------------------------------------------------------------
\* SetVersionInContext, lines 343-345: context.WithValue under "api_version"
SetVersionInContext(ctx, version) ==
    /\ detection.op \in {"none", "DetectFromContext"}
    /\ detection' = [op |-> "SetVersionInContext", stored |-> version,
                     ctx |-> Put(ctx, "api_version",
                                 [kind |-> "Version", version |-> version])]
    /\ UNCHANGED detector
    /\ UNCHANGED <<mgrVars, migVars, colVars, verVars>>

\* DetectFromContext, lines 187-201
DetectFromContextResult(d, ctx) ==
    LET match == detectFromContext(d, ctx)
    IN IF ~IsZero(match.version)
       THEN [Version |-> match.version, Method |-> "Context Value",
             Source |-> match.source]
       ELSE DefaultResult(d)

\* DetectFromContext on the context SetVersionInContext returned, as
\* ProcessWithAutoVersion calls it (manager.go 268)
DetectFromContext ==
    /\ detection.op = "SetVersionInContext"
    /\ detection' = [op |-> "DetectFromContext", stored |-> detection.stored,
                     ctx |-> detection.ctx,
                     result |-> DetectFromContextResult(detector, detection.ctx)]
    /\ UNCHANGED detector
    /\ UNCHANGED <<mgrVars, migVars, colVars, verVars>>

\* the contexts a version is stored in
Contexts ==
    {EmptyMap,
     Put(EmptyMap, "api_version", [kind |-> "string", string |-> <<"v", "4">>]),
     Put(EmptyMap, "tenant_version", [kind |-> "string", string |-> <<"v", "4">>])}

\* versions that are not zero
StoredVersions ==
    {NewVersion(1, 0, 0), NewVersion(1, 1, 0), NewVersion(2, 0, 0),
     NewVersion(0, 0, 1), NewVersionWithLabel(1, 0, 0, <<"r", "c">>),
     ParseVersion(<<"v", "4">>), ParseVersion(<<"l", "a", "t", "e", "s", "t">>)}

NextContext ==
    \/ \E ctx \in Contexts, version \in StoredVersions : SetVersionInContext(ctx, version)
    \/ DetectFromContext

SpecContext == InitDetector /\ [][NextContext]_vars

\* C26: for every detector, the version SetVersionInContext stored in a context
\* is the version the detector's DetectFromContext resolves from that context.
StoredVersionIsDetected ==
    detection.op = "DetectFromContext" =>
        detection.result.Version = detection.stored

\* ------------------------------------------------------------------------
\* Caller-supplied code run under the Manager's lock (manager.go 186-199,
\* 323-336)
\* ------------------------------------------------------------------------
MaxNestedCalls == 3

\* UpdateComponentMeta, lines 323-331: m.mu.Lock(), the lookup, and the call of
\* updateFn(meta); `nested` says that updateFn calls a reading operation of the
\* Manager (GetMeta, Get, List)
UpdateComponentMeta(t, name, nested) ==
    /\ pc[t] = "idle"
    /\ calls > 0
    /\ WriteLockFree
    /\ calls' = calls - 1
    /\ IF name \notin DOMAIN componentMeta
       THEN /\ Return(t, [op |-> "UpdateComponentMeta", name |-> name,
                          err |-> Errorf("component '%s' not found", name)])
            /\ UNCHANGED mu
       ELSE /\ mu' = t
            /\ pc' = [pc EXCEPT ![t] = "updateFn"]
            /\ frame' = [frame EXCEPT ![t] = [op |-> "UpdateComponentMeta",
                                              name |-> name, nested |-> nested]]
            /\ UNCHANGED ret
    /\ UNCHANGED <<components, componentMeta, constraints, hist>>
    /\ UNCHANGED <<migVars, detVars, colVars, verVars>>

\* ListByType, lines 187-193: m.mu.RLock() and the call of component.Type();
\* `nested` says that Type() calls a reading operation of the Manager
ListByType(t, componentType, nested) ==
    /\ pc[t] = "idle"
    /\ calls > 0
    /\ LockFree
    /\ calls' = calls - 1
    /\ IF DOMAIN components = {}
       THEN /\ Return(t, [op |-> "ListByType", names |-> <<>>, err |-> NilError])
       ELSE /\ pc' = [pc EXCEPT ![t] = "Type"]
            /\ frame' = [frame EXCEPT ![t] = [op |-> "ListByType",
                                              type |-> componentType,
                                              nested |-> nested]]
            /\ UNCHANGED ret
    /\ UNCHANGED <<components, componentMeta, constraints, mu, hist>>
    /\ UNCHANGED <<migVars, detVars, colVars, verVars>>

\* the reading operation the caller's code calls (GetMeta, lines 202-208):
\* its RLock returns only while no writer holds the lock, its caller included
NestedRead(t) ==
    /\ pc[t] \in {"updateFn", "Type"}
    /\ frame[t].nested
    /\ LockFree
    /\ frame' = [frame EXCEPT ![t].nested = FALSE]
    /\ UNCHANGED <<components, componentMeta, constraints, mu, pc, ret, calls, hist>>
    /\ UNCHANGED <<migVars, detVars, colVars, verVars>>

OfType(componentType) ==
    LET Typed(name) == name \in DOMAIN components /\ components[name].type = componentType
    IN SelectSeq(SortedNames, Typed)

\* the caller's code returns, and the operation around it comes to its end:
\* UpdateComponentMeta, lines 332-335 (the time stamp is no part of the meta as
\* modelled), and ListByType, lines 194-198
CallbackReturns(t) ==
    /\ pc[t] \in {"updateFn", "Type"}
    /\ ~frame[t].nested
    /\ IF pc[t] = "updateFn"
       THEN /\ mu' = NoThread
            /\ Return(t, [op |-> "UpdateComponentMeta", name |-> frame[t].name,
                          err |-> NilError])
       ELSE /\ Return(t, [op |-> "ListByType", names |-> OfType(frame[t].type),
                          err |-> NilError])
            /\ UNCHANGED mu
    /\ UNCHANGED <<components, componentMeta, constraints, calls, hist>>
    /\ UNCHANGED <<migVars, detVars, colVars, verVars>>

InitNested == NewManager(Threads, MaxNestedCalls) /\ IdleOthers

NestedStep(t) ==
    \/ \E c \in ProcessComponents : Register(t, c)
    \/ RegisterCheck(t)
    \/ RegisterStore(t)
    \/ \E n \in Names, nested \in BOOLEAN : UpdateComponentMeta(t, n, nested)
    \/ \E nested \in BOOLEAN : ListByType(t, "service", nested)
    \/ NestedRead(t)
    \/ CallbackReturns(t)

NextNested == \E t \in Threads : NestedStep(t)

SpecNested == InitNested /\ [][NextNested]_vars

\* every step that can be taken is taken in the end
SpecNestedFair == SpecNested /\ \A t \in Threads : WF_vars(NestedStep(t))

\* C27: every operation of the Manager that a thread has started comes to its
\* end, also when the caller's code run inside it calls reading operations of
\* the Manager and while other threads register components.
ManagerCallsComplete ==
    \A t \in Threads : (pc[t] # "idle") ~> (pc[t] = "idle")

\* ------------------------------------------------------------------------
\* Errors against requests in a collector driven by the Manager (manager.go
\* 135-160, 249-264)
\* ------------------------------------------------------------------------
\* C28: in every reachable state of a Manager with a collector that only Get
\* and ProcessVersioned write to, the error count of every component and
\* version is at most its request count.
ErrorsWithinRequests ==
    \A n \in Names, k \in MetricsKeys :
        CountIn(Counted, n, "ErrorCounts", k) <= CountIn(Counted, n, "VersionMetrics", k)

\* ------------------------------------------------------------------------
\* A migration and its reverse, one after the other (migration.go 77-100,
\* 236-276, 307-325)
\* ------------------------------------------------------------------------
\* Migrate(to, from, y) for the y that the last Migrate(from, to, x) returned
MigrateBack ==
    /\ migrated.op = "Migrate"
    /\ migrated.res.err = NilError
    /\ migrated' = [op |-> "MigrateBack", from |-> migrated.to, to |-> migrated.from,
                    first |-> migrated.given, given |-> migrated.res.val,
                    res |-> MigrateResult(migrated.to, migrated.from, migrated.res.val),
                    sawFirst |-> migrated.saw, saw |-> migrations]
    /\ UNCHANGED <<migrations, added, adds, adding>>
    /\ UNCHANGED <<mgrVars, detVars, colVars, verVars>>

SwapMappings ==
    <<FieldMapping("name", "email", "", Nil, TRUE),
      FieldMapping("email", "name", "", Nil, FALSE)>>

ChainMappings ==
    <<FieldMapping("id", "name", "", Nil, FALSE),
      FieldMapping("name", "nickname", "", Nil, TRUE)>>

RoundTripMappings ==
    {ExampleMappings, SwapMappings, ChainMappings, HookMappings, SharedDestination}

RoundTripInputs ==
    {MapVal([field \in fields |-> FieldValue(field)]) : fields \in SUBSET FieldNames}
    \cup {Nil, IntVal(7)}

NextRoundTrip ==
    \/ \E fieldMappings \in RoundTripMappings, reversible \in BOOLEAN :
          AddAutomaticMigration(NewVersion(1, 0, 0), NewVersion(2, 0, 0),
                                fieldMappings, reversible)
    \/ \E input \in RoundTripInputs :
          Migrate(NewVersion(1, 0, 0), NewVersion(2, 0, 0), input)
    \/ MigrateBack

SpecRoundTrip == InitMigrator /\ [][NextRoundTrip]_vars

\* mappings without hooks and defaults that rename fields one-to-one
Renames(mappings) ==
    /\ \A i \in 1..Len(mappings) :
          mappings[i].Transform = "" /\ mappings[i].DefaultValue = Nil
    /\ \A i, j \in 1..Len(mappings) :
          i # j => /\ mappings[i].FromField # mappings[j].FromField
                   /\ mappings[i].ToField # mappings[j].ToField

Sources(mappings) == {mappings[i].FromField : i \in 1..Len(mappings)}

Destinations(mappings) == {mappings[i].ToField : i \in 1..Len(mappings)}

\* a map input that holds every mapped source field and no unmapped field
\* named like a mapped field
FitsMappings(input, mappings) ==
    /\ input # Nil
    /\ input.kind = "map"
    /\ Sources(mappings) \subseteq DOMAIN input.map
    /\ (DOMAIN input.map \ Sources(mappings)) \cap Destinations(mappings) = {}

\* the entry the round trip went through: reversible, automatic, renaming
RoundTripOver(migration) ==
    /\ migration.Strategy = "automatic"
    /\ migration.Reversible
    /\ Renames(migration.FieldMappings)

\* C29: with a reversible Automatic migration from a to b that renames fields
\* one-to-one without hooks and defaults, Migrate(b, a, Migrate(a, b, x)) = x
\* for every map x that holds all mapped source fields and no unmapped field
\* named like a mapped one.
RoundTripRestoresInput ==
    (/\ migrated.op = "MigrateBack"
     /\ migrated.sawFirst = migrated.saw
     /\ migrationKey(migrated.to, migrated.from) \in DOMAIN migrated.saw
     /\ RoundTripOver(migrated.saw[migrationKey(migrated.to, migrated.from)])
     /\ FitsMappings(migrated.first,
            migrated.saw[migrationKey(migrated.to, migrated.from)].FieldMappings)) =>
        /\ migrated.res.err = NilError
        /\ migrated.res.val = migrated.first

\* the example input taken through the example mappings and back, its fields
\* renamed in between
RoundTripSeen ==
    /\ migrated.op = "MigrateBack"
    /\ migrated.first = ExampleInput
    /\ migrationKey(migrated.to, migrated.from) \in DOMAIN migrated.saw
    /\ RoundTripOver(migrated.saw[migrationKey(migrated.to, migrated.from)])
    /\ migrated.given # migrated.first
    /\ "display_name" \in DOMAIN migrated.given.map
    /\ migrated.res.val = ExampleInput

\* a chain of renames taken through and back
RoundTripChainSeen ==
    /\ migrated.op = "MigrateBack"
    /\ migrationKey(migrated.to, migrated.from) \in DOMAIN migrated.saw
    /\ migrated.saw[migrationKey(migrated.to, migrated.from)].FieldMappings = ChainMappings
    /\ migrated.saw[migrationKey(migrated.to, migrated.from)].Reversible
    /\ FitsMappings(migrated.first, ChainMappings)
    /\ migrated.res.val = migrated.first

====
